---- MODULE Spec2Model ----
(***************************************************************************)
(* Model of the run coordinator of overhearing_agents' experiment harness: *)
(* the lock-guarded run index (experiments/index.py), the run entry point  *)
(* that uses it (experiments/experiment.py, Experiment.run and run_text)   *)
(* and the text segmenter that the run body iterates                       *)
(* (experiments/utils.py, text_chunks_from_transcript_file).               *)
(*                                                                         *)
(* Several OS processes share one index file.  Every _sync holds the file  *)
(* lock for its whole read-merge-write cycle, so a sync is one atomic step;*)
(* everything a process does between two syncs touches only its own memory *)
(* or the log directory of its own run key.  Times are whole seconds.      *)
(*                                                                         *)
(* The run body is that of run_text; run_audio and run_text_span_search    *)
(* use the index in the same way (update_last_seen after every window).    *)
(***************************************************************************)
EXTENDS Integers, Sequences, FiniteSets, TLC

VARIABLES
    file,        \* index.json: run key -> record
    data,        \* per process: ExperimentRunIndex.data
    updated,     \* per process: ExperimentRunIndex.updated_keys
    pc,          \* per process: position inside Experiment.run
    key,         \* per process: Experiment.run_key of the current call
    force,       \* per process: the force_rerun argument of the current call
    att,         \* per process: number of the current call of run (0: none)
    seek,        \* per process: partial_completion, passed as seek_to
    wpos,        \* per process: windows of the segmenter consumed so far
    result,      \* per process: how the last call of run ended
    nAttempts,   \* calls of run started so far
    logDir,      \* per key: 0 if log_dir does not exist, else the attempt that made it
    outLog,      \* per key: ends of the windows whose suggestions are all in log_dir/suggestions.jsonl
    untilDirs,   \* per key: <<attempt, w>> for each directory moved to <model_key>__until-<w>
    bak,         \* per key: attempt whose directory is in <log_dir>.bak.tar.gz (0: no archive)
    removed,     \* per key: attempts whose directory was removed by rmtree
    last,        \* history: the step taken last
    synced,      \* history: per key, the record last written for it by a sync of a process that had updated it
    committed,   \* history: per process, watermark committed in the current attempt
    hwm,         \* history: per key, watermark committed last by an unforced attempt since the last forced one
    prevFail,    \* history: per key, how the latest attempt on it failed after committing a watermark
    resumeOf,    \* history: per process, prevFail of its key when the current attempt began
    archived,    \* history: per key, attempts whose directory was ever put into the archive
    unflushed    \* per process: what it wrote to its open suggestions file that is not in the file yet

vars == <<file, data, updated, pc, key, force, att, seek, wpos, result, nAttempts,
          logDir, outLog, untilDirs, bak, removed,
          last, synced, committed, hwm, prevFail, resumeOf, archived, unflushed>>

\* One call of text_chunks_from_transcript_file, statement by statement.
VARIABLES
    tSegs,        \* data["segments"]
    tYield,       \* yield_every
    tSeek,        \* seek_to
    tPc,          \* "start", "loop", "done", or "error" (ValueError raised)
    tIdx,         \* idx (list index plus one); start_idx when the loop begins
    tBuffer,      \* buffer
    tBufferStart, \* buffer_start
    tSpan,        \* buffer_span_len
    tLastEnd,     \* last_end
    tLastText,    \* last_text
    tOut,         \* the windows yielded so far: (text, start, end)
    tKept,        \* history: indices of the segments in buffer
    tHist,        \* history: per yielded window, the indices kept in it and how it was yielded
    tDropped,     \* history: indices of the segments discarded
    tLast         \* history: the statement executed last

textVars == <<tSegs, tYield, tSeek, tPc, tIdx, tBuffer, tBufferStart, tSpan, tLastEnd,
              tLastText, tOut, tKept, tHist, tDropped, tLast>>

\* One call of audio_chunks_from_file. Times are counted in half byte-times
\* (1 / (2 * bytes_per_sec) second), so that 48000 * seek_to need not be whole.
VARIABLES
    aLen,         \* audio_len, in bytes
    aYield,       \* yield_every
    aSeek,        \* seek_to
    aPc,          \* "start", "loop" or "done"
    aSec,         \* the loop variable sec, a byte offset
    aOut          \* the windows yielded so far: the slice bounds and (start_time, end_time)

audioVars == <<aLen, aYield, aSeek, aPc, aSec, aOut>>

\* The file lock of the index and where each process stands with respect to it.
VARIABLES
    lockHolder,   \* the process inside "with self.flock", or "free"
    lpc           \* per process: its position in Experiment.run

lockVars == <<lockHolder, lpc>>

\* One call of extract_gamedata_entities (extract_npc_entities is a copy of it
\* over the list of NPC names). A text is a sequence of characters; a span is
\* (start, end) as re.Match gives it: the characters start + 1 .. end.
VARIABLES
    mText,        \* the argument text
    mCat,         \* the catalog: the qualified names, in the order of compendium.all
    mCase,        \* case_sensitive
    mNorm,        \* normalize
    mPc,          \* "start", "loop" or "done"
    mWork,        \* the local text: normalized, then erased match by match
    mPot,         \* potential_matches
    mOut          \* matches

matchVars == <<mText, mCat, mCase, mNorm, mPc, mWork, mPot, mOut>>

\* One call of suggestions_are_same, statement by statement.
VARIABLES
    sEarlier,     \* earlier
    sLater,       \* later
    sTol,         \* tolerance
    sNameOnly,    \* match_npc_name_only
    sStrict,      \* strict_match_improvised_npc
    sPc,          \* the statement to execute next, or "done"
    sResult,      \* the value returned
    sGates,       \* history: the tests of lines 178 to 183 evaluated, in order
    sRead         \* history: the fields of the two suggestion dicts read, suggest_type apart

sameVars == <<sEarlier, sLater, sTol, sNameOnly, sStrict, sPc, sResult, sGates, sRead>>

\* The suggestion filter of run_text_span_search over the windows of one run.
VARIABLES
    dWins,        \* per window: its end, the entities matched in it, the NPCs matched in it
    dPc,          \* "window", "tuples" or "done"
    dW,           \* the number of the window in progress
    dTuples,      \* suggestion_tuples, as the keys (type, name)
    dI,           \* the tuple the loop of line 275 is at
    dLast,        \* last_suggestion
    dSeenAt,      \* suggestion_seen_at
    dSeenSpan,    \* seen_this_span
    dStaged,      \* staged_npcs
    dLog,         \* the suggestions written to suggestions.jsonl: key, window and end
    dHist         \* history: per tuple met, its key, window, end and whether it was written

spanVars == <<dWins, dPc, dW, dTuples, dI, dLast, dSeenAt, dSeenSpan, dStaged, dLog, dHist>>

\* The annotation server: the suggestions of one experiment and its annotations file.
VARIABLES
    nSugs,        \* get_all_suggestions: the suggestions of the experiment, sorted by end
    nFile,        \* annotations/<experiment_id>.jsonl, record by record
    nCalls        \* history: the last post_annotation call, its request and what was to do

annoVars == <<nSugs, nFile, nCalls>>

\* BaseRealtimeKani.reconnect: one call.
VARIABLES
    rPc,          \* "off", "call", "connect", "close", "returned", "raised"
    rAttempts,    \* retry_attempts
    rRetryIdx,    \* retry_idx
    rSession,     \* the messages of the session being replaced: role and seconds of audio
    rReupload,    \* _realtime_reconnect_reupload_secs
    rBackup,      \* _backup_chat_history
    rHistory,     \* _chat_history
    rFailed,      \* history: connection attempts that failed
    rConnected,   \* the new session is connected
    rSlept,       \* history: the sleeps, in order
    rOldClosed,   \* old_session.close() was awaited
    rReported     \* the "Reconnected and reuploaded" line was logged

reconnectVars == <<rPc, rAttempts, rRetryIdx, rSession, rReupload, rBackup, rHistory,
                   rFailed, rConnected, rSlept, rOldClosed, rReported>>

\* ResetContextOnDuplicatesMixin: one kani.
VARIABLES
    gOn,          \* the mixin is looked at
    gMax,         \* max_consecutive_duplicates
    gHistory,     \* chat_history: the content of each assistant message
    gLast,        \* _last_asst_content
    gSeen,        \* _seen_duplicates
    gStartIdx,    \* _chat_history_start_idx
    gResets       \* history: the lengths of chat_history at which the context was reset

dedupVars == <<gOn, gMax, gHistory, gLast, gSeen, gStartIdx, gResets>>

kaniVars == <<reconnectVars, dedupVars>>

\* The calls of functions that touch neither the index nor the segmenters.
pureVars == <<matchVars, sameVars, spanVars, annoVars, kaniVars>>

\* What a step of one part of the model leaves alone: the other parts.
sideVars == <<textVars, audioVars, lockVars, pureVars>>
textRest == <<vars, audioVars, lockVars, pureVars>>
audioRest == <<vars, textVars, lockVars, pureVars>>
lockRest == <<vars, textVars, audioVars, pureVars>>
matchRest == <<vars, textVars, audioVars, lockVars, sameVars, spanVars, annoVars, kaniVars>>
sameRest == <<vars, textVars, audioVars, lockVars, matchVars, spanVars, annoVars, kaniVars>>
spanRest == <<vars, textVars, audioVars, lockVars, matchVars, sameVars, annoVars, kaniVars>>
reconnectRest == <<vars, textVars, audioVars, lockVars, matchVars, sameVars, spanVars, annoVars, dedupVars>>
dedupRest == <<vars, textVars, audioVars, lockVars, matchVars, sameVars, spanVars, annoVars, reconnectVars>>
annoRest == <<vars, textVars, audioVars, lockVars, matchVars, sameVars, spanVars, kaniVars>>

\* ---------------------------------------------------------------- bounds
MaxAttempts == 3

Procs == {"p1", "p2"}
Keys == {"k1", "k2"}
NoKey == "nokey"
Absent == 0 - 1

\* The run key each worker owns when workers are fanned out over disjoint keys.
OwnKey(p) == IF p = "p1" THEN "k1" ELSE "k2"

\* ---------------------------------------------------------------- texts
\* A text is a sequence of tokens: words, blanks and newlines.
Newline == "<nl>"
Whitespace == {" ", Newline}

RECURSIVE StripLeft(_)
StripLeft(t) == IF t # <<>> /\ Head(t) \in Whitespace THEN StripLeft(Tail(t)) ELSE t

RECURSIVE StripRight(_)
StripRight(t) ==
    IF t # <<>> /\ t[Len(t)] \in Whitespace THEN StripRight(SubSeq(t, 1, Len(t) - 1)) ELSE t

\* str.strip()
StripMutIdentity(t) == t
Strip(t) == StripRight(StripLeft(t))

\* "\n".join(buffer)
RECURSIVE JoinLines(_)
JoinLines(buf) ==
    IF buf = <<>> THEN <<>>
    ELSE IF Len(buf) = 1 THEN buf[1]
    ELSE buf[1] \o <<Newline>> \o JoinLines(Tail(buf))

\* ---------------------------------------------------------------- inputs
\* The transcript behind each run key (its .json file): segments {start, end, text}.
Seg(s, e, t) == [start |-> s, end |-> e, text |-> t]

TranscriptOf(k) ==
    IF k = "k1"
    THEN << Seg(0, 2, <<" ", "a">>), Seg(2, 2, <<" ", "a">>), Seg(2, 4, <<" ", "b">>) >>
    ELSE << Seg(0, 1, <<"x">>), Seg(2, 3, <<"y">>) >>

\* config.yield_every of the model behind each run key.
YieldEveryOf(k) == IF k = "k1" THEN 2 ELSE 3

\* ---------------------------------------------------------------- index records
\* A record of the index; "none" / Absent stand for a field the dict does not hold.
\* A key the dict does not hold reads as the empty record (data.get(key, {})).
EmptyRec == [state |-> "none", path |-> "none", lp |-> Absent, error |-> "none"]

PathOf(k) == IF k = "k1" THEN "k1/suggestions.jsonl" ELSE "k2/suggestions.jsonl"

\* dict |= value: the fields value holds replace those of rec.
MergeRec(rec, val) ==
    [state |-> IF val.state = "none" THEN rec.state ELSE val.state,
     path  |-> IF val.path = "none" THEN rec.path ELSE val.path,
     lp    |-> IF val.lp = Absent THEN rec.lp ELSE val.lp,
     error |-> IF val.error = "none" THEN rec.error ELSE val.error]

\* set_key: the record is replaced.
SetKeyMutMerge(d, k, val) == [d EXCEPT ![k] = MergeRec(d[k], val)]
SetKey(d, k, val) == [d EXCEPT ![k] = val]

\* update_key: the value is merged into the record.
UpdateKeyMutReplace(d, k, val) == [d EXCEPT ![k] = val]
UpdateKey(d, k, val) == [d EXCEPT ![k] = MergeRec(d[k], val)]

\* _sync, the data after it: new_data | data_to_merge.
SyncDataMutStale(d, upd, f) == d
SyncData(d, upd, f) == [k \in Keys |-> IF k \in upd THEN d[k] ELSE f[k]]

\* _sync, the file after it: written only if there were updates.
SyncFile(d, upd, f) == IF upd = {} THEN f ELSE SyncData(d, upd, f)

\* is_done_or_running, after its _sync.
IsDoneOrRunningMutRunningOnly(d, k) == d[k].state = "running"
IsDoneOrRunning(d, k) == d[k].state = "running" \/ d[k].state = "done"

\* is_partially_complete, after the _sync of is_done_or_running;
\* float(False) is 0.0 and a missing last_processed reads 0.
IsPartiallyCompleteMutZero(d, k) == 0
IsPartiallyComplete(d, k) ==
    IF IsDoneOrRunning(d, k) THEN 0
    ELSE IF d[k].lp = Absent THEN 0 ELSE d[k].lp

\* The values running() and update_last_seen() write.
RunningValue(k) == [state |-> "running", path |-> PathOf(k), lp |-> Absent, error |-> "none"]
ErrorValueMutDone(k) == [state |-> "done", path |-> PathOf(k), lp |-> Absent, error |-> "none"]
ErrorValue(k) == [state |-> "error", path |-> PathOf(k), lp |-> Absent, error |-> "trace"]
DoneValueMutRunning(k) == [state |-> "running", path |-> PathOf(k), lp |-> Absent, error |-> "none"]
DoneValue(k) == [state |-> "done", path |-> PathOf(k), lp |-> Absent, error |-> "none"]
LastSeenValue(ts) == [state |-> "none", path |-> "none", lp |-> ts, error |-> "none"]

\* ---------------------------------------------------------------- text segmenter
RECURSIVE MaxEnd(_, _)
MaxEnd(segs, i) ==
    IF i > Len(segs) THEN 0
    ELSE LET rest == MaxEnd(segs, i + 1)
         IN IF segs[i].end > rest THEN segs[i].end ELSE rest

\* segment_len
SegmentLen(segs) == MaxEnd(segs, 1)

\* start: seek_to when it is truthy, else 0.
SeekStart(seekTo) == IF seekTo # 0 THEN seekTo ELSE 0

\* raise ValueError("Provided starting value is past total duration.")
SeekPastEnd(segs, seekTo) == SeekStart(seekTo) > SegmentLen(segs)

RECURSIVE StartIdxFrom(_, _, _)
StartIdxFrom(segs, start, i) ==
    IF start > segs[i].end THEN StartIdxFrom(segs, start, i + 1) ELSE i

\* start_idx (the list index plus one)
StartIdx(segs, seekTo) == StartIdxFrom(segs, SeekStart(seekTo), 1)

\* last_text = None: no text strips to it.
NoText == << "<None>" >>

RECURSIVE ChunkLoop(_, _, _, _)
ChunkLoop(segs, yieldEvery, idx, st) ==
    IF idx > Len(segs)
    THEN IF st.buffer # <<>>
         THEN Append(st.out, [text |-> JoinLines(st.buffer), start |-> st.bufferStart,
                              end |-> st.lastEnd])
         ELSE st.out
    ELSE LET segment == segs[idx]
             text == Strip(segment.text)
             span1 == st.span + (segment.end - segment.start)
         IN IF text = st.lastText /\ segment.start = st.lastEnd
            THEN ChunkLoop(segs, yieldEvery, idx + 1,
                           [st EXCEPT !.span = span1, !.lastEnd = segment.end])
            ELSE LET buf == Append(st.buffer, text)
                     span2 == span1 + (segment.start - st.lastEnd)
                 IN IF span2 >= yieldEvery
                    THEN ChunkLoop(segs, yieldEvery, idx + 1,
                                   [buffer |-> <<>>, bufferStart |-> segment.end, span |-> 0,
                                    lastEnd |-> segment.end, lastText |-> text,
                                    out |-> Append(st.out, [text |-> JoinLines(buf),
                                                            start |-> st.bufferStart,
                                                            end |-> segment.end])])
                    ELSE ChunkLoop(segs, yieldEvery, idx + 1,
                                   [st EXCEPT !.buffer = buf, !.span = span2,
                                              !.lastEnd = segment.end, !.lastText = text])

\* text_chunks_from_transcript_file: the windows it yields, in order.
TextChunks(segs, yieldEvery, seekTo) ==
    LET startIdx == StartIdx(segs, seekTo)
    IN ChunkLoop(segs, yieldEvery, startIdx,
                 [buffer |-> <<>>, bufferStart |-> segs[startIdx].start, span |-> 0,
                  lastEnd |-> segs[startIdx].start, lastText |-> NoText, out |-> <<>>])

\* The windows of the run body of process p.
Windows(p) == TextChunks(TranscriptOf(key[p]), YieldEveryOf(key[p]), seek[p])

\* ---------------------------------------------------------------- state
EmptyData == [k \in Keys |-> EmptyRec]
NoFail == [att |-> 0, w |-> 0]

RunInit ==
    /\ file = EmptyData
    /\ data = [p \in Procs |-> EmptyData]
    /\ updated = [p \in Procs |-> {}]
    /\ pc = [p \in Procs |-> "idle"]
    /\ key = [p \in Procs |-> NoKey]
    /\ force = [p \in Procs |-> FALSE]
    /\ att = [p \in Procs |-> 0]
    /\ seek = [p \in Procs |-> 0]
    /\ wpos = [p \in Procs |-> 0]
    /\ result = [p \in Procs |-> "none"]
    /\ nAttempts = 0
    /\ logDir = [k \in Keys |-> 0]
    /\ outLog = [k \in Keys |-> <<>>]
    /\ untilDirs = [k \in Keys |-> {}]
    /\ bak = [k \in Keys |-> 0]
    /\ removed = [k \in Keys |-> {}]
    /\ last = [op |-> "Init", p |-> "none", k |-> NoKey]
    /\ synced = EmptyData
    /\ committed = [p \in Procs |-> Absent]
    /\ hwm = [k \in Keys |-> Absent]
    /\ prevFail = [k \in Keys |-> NoFail]
    /\ resumeOf = [p \in Procs |-> NoFail]
    /\ archived = [k \in Keys |-> {}]
    /\ unflushed = [p \in Procs |-> <<>>]

\* No call of the segmenter in progress.
TextOff ==
    /\ tSegs = <<>> /\ tYield = 0 /\ tSeek = 0 /\ tPc = "off" /\ tIdx = 0
    /\ tBuffer = <<>> /\ tBufferStart = 0 /\ tSpan = 0 /\ tLastEnd = 0
    /\ tLastText = NoText /\ tOut = <<>> /\ tKept = <<>> /\ tHist = <<>>
    /\ tDropped = {} /\ tLast = "off"

\* No call of the audio segmenter in progress.
AudioOff ==
    aLen = 0 /\ aYield = 0 /\ aSeek = 0 /\ aPc = "off" /\ aSec = 0 /\ aOut = <<>>

\* The lock steps are not looked at.
LockOff == lockHolder = "free" /\ lpc = [p \in Procs |-> "off"]

\* No call of the matcher in progress.
MatchOff ==
    /\ mText = <<>> /\ mCat = <<>> /\ mCase = FALSE /\ mNorm = FALSE /\ mPc = "off"
    /\ mWork = <<>> /\ mPot = <<>> /\ mOut = <<>>

NoSuggestion == [start |-> 0, end |-> 0, suggestion |-> [suggest_type |-> "none"]]

\* No call of suggestions_are_same in progress.
SameOff ==
    /\ sEarlier = NoSuggestion /\ sLater = NoSuggestion /\ sTol = 0
    /\ sNameOnly = FALSE /\ sStrict = FALSE /\ sPc = "off" /\ sResult = "none"
    /\ sGates = <<>> /\ sRead = {}

\* No span search in progress.
SpanOff ==
    /\ dWins = <<>> /\ dPc = "off" /\ dW = 0 /\ dTuples = <<>> /\ dI = 0
    /\ dLast = <<>> /\ dSeenAt = <<>> /\ dSeenSpan = {} /\ dStaged = {}
    /\ dLog = <<>> /\ dHist = <<>>

\* The annotation server is not looked at.
AnnoOff == nSugs = <<>> /\ nFile = <<>> /\ nCalls = <<>>

\* No reconnect is looked at.
ReconnectOff ==
    /\ rPc = "off" /\ rAttempts = 0 /\ rRetryIdx = 0 /\ rSession = <<>> /\ rReupload = 0
    /\ rBackup = <<>> /\ rHistory = <<>> /\ rFailed = 0 /\ rConnected = FALSE
    /\ rSlept = <<>> /\ rOldClosed = FALSE /\ rReported = FALSE

\* The mixin is not looked at.
DedupOff ==
    /\ gOn = FALSE /\ gMax = 0 /\ gHistory = <<>> /\ gLast = "None" /\ gSeen = 0
    /\ gStartIdx = 0 /\ gResets = {}

KaniOff == ReconnectOff /\ DedupOff

PureOff == MatchOff /\ SameOff /\ SpanOff /\ AnnoOff /\ KaniOff

Init == RunInit /\ TextOff /\ AudioOff /\ LockOff /\ PureOff

fsVars == <<logDir, outLog, untilDirs, bak, removed, archived>>
indexVars == <<file, data, updated, synced>>

\* _sync without the read of the file: the memory of the process is taken as it is.
DoSyncMutNoRead(p, d, upd) ==
    /\ data' = [data EXCEPT ![p] = d]
    /\ file' = IF upd = {} THEN file ELSE [k \in Keys |-> IF k \in upd THEN d[k] ELSE file[k]]
    /\ updated' = [updated EXCEPT ![p] = {}]
    /\ synced' = [k \in Keys |-> IF k \in upd THEN d[k] ELSE synced[k]]

\* _sync of process p, its memory being d and its updated_keys upd: one
\* read-merge-write cycle under the file lock.
DoSync(p, d, upd) ==
    /\ data' = [data EXCEPT ![p] = SyncData(d, upd, file)]
    /\ file' = SyncFile(d, upd, file)
    /\ updated' = [updated EXCEPT ![p] = {}]
    /\ synced' = [k \in Keys |-> IF k \in upd THEN d[k] ELSE synced[k]]

\* Experiment.run, "with self.run_index:": __enter__ reads the file under the lock.
Enter(p, k, f) ==
    /\ pc[p] = "idle"
    /\ nAttempts < MaxAttempts
    /\ nAttempts' = nAttempts + 1
    /\ data' = [data EXCEPT ![p] = file]
    /\ pc' = [pc EXCEPT ![p] = "entered"]
    /\ key' = [key EXCEPT ![p] = k]
    /\ force' = [force EXCEPT ![p] = f]
    /\ att' = [att EXCEPT ![p] = nAttempts + 1]
    /\ seek' = [seek EXCEPT ![p] = 0]
    /\ wpos' = [wpos EXCEPT ![p] = 0]
    /\ result' = [result EXCEPT ![p] = "none"]
    /\ committed' = [committed EXCEPT ![p] = Absent]
    /\ resumeOf' = [resumeOf EXCEPT ![p] = prevFail[k]]
    /\ prevFail' = [prevFail EXCEPT ![k] = NoFail]
    /\ last' = [op |-> "Enter", p |-> p, k |-> k]
    /\ UNCHANGED <<sideVars, unflushed>>
    /\ UNCHANGED <<file, updated, synced, hwm>>
    /\ UNCHANGED fsVars

\* "if force_rerun or not self.run_index.is_done_or_running(self.run_key)"
Check(p) ==
    /\ pc[p] = "entered"
    /\ last' = [op |-> "Check", p |-> p, k |-> key[p]]
    /\ UNCHANGED <<sideVars, unflushed>>
    /\ IF force[p]
       THEN /\ pc' = [pc EXCEPT ![p] = "prepare"]
            /\ UNCHANGED <<result, indexVars>>
       ELSE /\ DoSync(p, data[p], updated[p])
            /\ IF IsDoneOrRunning(data'[p], key[p])
               THEN /\ pc' = [pc EXCEPT ![p] = "exit"]
                    /\ result' = [result EXCEPT ![p] = "skipped"]
               ELSE /\ pc' = [pc EXCEPT ![p] = "partial"]
                    /\ UNCHANGED result
    /\ UNCHANGED <<key, force, att, seek, wpos, nAttempts, committed, hwm, prevFail, resumeOf>>
    /\ UNCHANGED fsVars

\* shutil.move(log_dir, "<model_key>__until-<w>") raises when the target already
\* holds a directory and, inside it, one named like log_dir.
MoveCollides(k, w) == Cardinality({m \in untilDirs[k] : m[2] = w}) >= 2

\* "partial_completion = float(is_partially_complete(run_key))" and the move of the
\* directory of the crashed run.
Partial(p) ==
    LET k == key[p] IN
    /\ pc[p] = "partial"
    /\ last' = [op |-> "Partial", p |-> p, k |-> key[p]]
    /\ UNCHANGED <<sideVars, unflushed>>
    /\ DoSync(p, data[p], updated[p])
    /\ LET w == IsPartiallyComplete(data'[p], k) IN
       IF w # 0 /\ logDir[k] # 0
       THEN IF MoveCollides(k, w)
            THEN /\ pc' = [pc EXCEPT ![p] = "exit"]
                 /\ result' = [result EXCEPT ![p] = "aborted"]
                 /\ UNCHANGED <<seek, logDir, outLog, untilDirs>>
            ELSE /\ pc' = [pc EXCEPT ![p] = "prepare"]
                 /\ seek' = [seek EXCEPT ![p] = w]
                 /\ untilDirs' = [untilDirs EXCEPT ![k] = @ \cup {<<logDir[k], w>>}]
                 /\ logDir' = [logDir EXCEPT ![k] = 0]
                 /\ outLog' = [outLog EXCEPT ![k] = <<>>]
                 /\ UNCHANGED result
       ELSE /\ pc' = [pc EXCEPT ![p] = "prepare"]
            /\ seek' = [seek EXCEPT ![p] = w]
            /\ UNCHANGED <<result, logDir, outLog, untilDirs>>
    /\ UNCHANGED <<key, force, att, wpos, nAttempts, committed, hwm, prevFail, resumeOf>>
    /\ UNCHANGED <<bak, removed, archived>>

\* shutil.make_archive: the archive after the backup step, old being the archive before.
BakAfterMutNoArchive(dir, old) == old
BakAfter(dir, old) == IF dir # 0 THEN dir ELSE old

\* "back up any existing log dir and clear it", then mkdir.
PrepareDirs(p) ==
    LET k == key[p] IN
    /\ bak' = [bak EXCEPT ![k] = BakAfter(logDir[k], @)]
    /\ archived' = [archived EXCEPT ![k] = @ \cup ({bak'[k]} \ {0})]
    /\ removed' = [removed EXCEPT ![k] = @ \cup ({logDir[k]} \ {0})]
    /\ logDir' = [logDir EXCEPT ![k] = att[p]]
    /\ outLog' = [outLog EXCEPT ![k] = <<>>]
    /\ UNCHANGED untilDirs

\* The rest of run up to the run body: the directories, config_for_key, and the
\* entry of "with self.run_index.running(...)": set_key, not synced.
Prepare(p) ==
    LET k == key[p] IN
    /\ pc[p] = "prepare"
    /\ last' = [op |-> "Prepare", p |-> p, k |-> key[p]]
    /\ UNCHANGED <<sideVars, unflushed>>
    /\ PrepareDirs(p)
    /\ data' = [data EXCEPT ![p] = SetKey(@, k, RunningValue(k))]
    /\ updated' = [updated EXCEPT ![p] = @ \cup {k}]
    /\ pc' = [pc EXCEPT ![p] = "body"]
    /\ hwm' = [hwm EXCEPT ![k] = IF force[p] THEN Absent ELSE @]
    /\ UNCHANGED <<file, synced, key, force, att, seek, wpos, result, nAttempts,
                   committed, prevFail, resumeOf>>

\* config_for_key raises: the exception leaves run before the running scope is entered.
PrepareFail(p) ==
    /\ pc[p] = "prepare"
    /\ last' = [op |-> "PrepareFail", p |-> p, k |-> key[p]]
    /\ UNCHANGED <<sideVars, unflushed>>
    /\ PrepareDirs(p)
    /\ pc' = [pc EXCEPT ![p] = "exit"]
    /\ result' = [result EXCEPT ![p] = "aborted"]
    /\ UNCHANGED <<key, force, att, seek, wpos, nAttempts, committed, hwm, prevFail, resumeOf>>
    /\ UNCHANGED indexVars

\* What is written out of the buffer of the open suggestions file reaches
\* log_dir only while the directory the file was opened in is still there.
LogFlush(p, written) ==
    /\ outLog' = [outLog EXCEPT ![key[p]] = IF logDir[key[p]] = att[p] THEN @ \o written ELSE @]
    /\ unflushed' = [unflushed EXCEPT ![p] = <<>>]

\* log_suggestion for the suggestions of one window: f.write puts the records
\* into the buffer of the file object (there is no flush); the buffer is written
\* out when it is full, which depends on the size of the records.
LogWriteMutSkip(p, end) == UNCHANGED <<outLog, unflushed>>
LogWrite(p, end) ==
    \/ LogFlush(p, Append(unflushed[p], end))
    \/ /\ unflushed' = [unflushed EXCEPT ![p] = Append(@, end)]
       /\ UNCHANGED outLog

\* The "with out_fp.open" block of run_text ends, normally or with an exception:
\* the file is closed and its buffer written out.
LogClose(p) == LogFlush(p, unflushed[p])

\* run_text, one iteration: the window's suggestions are logged, then
\* update_last_seen(run_key, end) merges the watermark and syncs.
Window(p) ==
    LET k == key[p] IN
    /\ pc[p] = "body"
    /\ ~SeekPastEnd(TranscriptOf(k), seek[p])
    /\ wpos[p] < Len(Windows(p))
    /\ LET w == Windows(p)[wpos[p] + 1] IN
        /\ LogWrite(p, w.end)
        /\ DoSync(p, UpdateKey(data[p], k, LastSeenValue(w.end)), updated[p] \cup {k})
        /\ committed' = [committed EXCEPT ![p] = w.end]
        /\ hwm' = [hwm EXCEPT ![k] = IF force[p] THEN @ ELSE w.end]
    /\ wpos' = [wpos EXCEPT ![p] = @ + 1]
    /\ last' = [op |-> "Window", p |-> p, k |-> key[p]]
    /\ UNCHANGED sideVars
    /\ UNCHANGED <<pc, key, force, att, seek, result, nAttempts, prevFail, resumeOf>>
    /\ UNCHANGED <<logDir, untilDirs, bak, removed, archived>>

\* running(): an exception escapes the body (the seek error of the segmenter, the
\* agent, an interrupt).  The log counts whole windows only, so what the window
\* in flight has logged so far does not show in it.
BodyFail(p) ==
    LET k == key[p] IN
    /\ pc[p] = "body"
    /\ DoSync(p, UpdateKey(data[p], k, ErrorValue(k)), updated[p] \cup {k})
    /\ pc' = [pc EXCEPT ![p] = "exit"]
    /\ result' = [result EXCEPT ![p] = "error"]
    /\ prevFail' = [prevFail EXCEPT ![k] =
                       IF committed[p] > 0 THEN [att |-> att[p], w |-> committed[p]] ELSE NoFail]
    /\ last' = [op |-> "BodyFail", p |-> p, k |-> key[p]]
    /\ UNCHANGED sideVars
    /\ UNCHANGED <<key, force, att, seek, wpos, nAttempts, committed, hwm, resumeOf>>
    /\ LogClose(p)
    /\ UNCHANGED <<logDir, untilDirs, bak, removed, archived>>

\* running(): the body ends normally once the segmenter is exhausted.
BodyDone(p) ==
    LET k == key[p] IN
    /\ pc[p] = "body"
    /\ ~SeekPastEnd(TranscriptOf(k), seek[p])
    /\ wpos[p] = Len(Windows(p))
    /\ DoSync(p, UpdateKey(data[p], k, DoneValue(k)), updated[p] \cup {k})
    /\ pc' = [pc EXCEPT ![p] = "exit"]
    /\ result' = [result EXCEPT ![p] = "done"]
    /\ last' = [op |-> "BodyDone", p |-> p, k |-> key[p]]
    /\ UNCHANGED sideVars
    /\ UNCHANGED <<key, force, att, seek, wpos, nAttempts, committed, hwm, prevFail, resumeOf>>
    /\ LogClose(p)
    /\ UNCHANGED <<logDir, untilDirs, bak, removed, archived>>

\* The call of run is over: its locals are gone (the next call sets them anew).
Forget(p) ==
    /\ pc' = [pc EXCEPT ![p] = "idle"]
    /\ key' = [key EXCEPT ![p] = NoKey]
    /\ force' = [force EXCEPT ![p] = FALSE]
    /\ att' = [att EXCEPT ![p] = 0]
    /\ seek' = [seek EXCEPT ![p] = 0]
    /\ wpos' = [wpos EXCEPT ![p] = 0]
    /\ committed' = [committed EXCEPT ![p] = Absent]
    /\ resumeOf' = [resumeOf EXCEPT ![p] = NoFail]

\* __exit__ of "with self.run_index:", on every way out of run.
Exit(p) ==
    /\ pc[p] = "exit"
    /\ DoSync(p, data[p], updated[p])
    /\ Forget(p)
    /\ last' = [op |-> "Exit", p |-> p, k |-> key[p]]
    /\ UNCHANGED <<sideVars, unflushed>>
    /\ UNCHANGED <<result, nAttempts, hwm, prevFail>>
    /\ UNCHANGED fsVars

\* The process is killed inside run: no handler runs, its memory is gone, the
\* buffer of its open suggestions file with it.  (A kill
\* before the directories are touched or after the last sync leaves the same file
\* and directories as a call that never started or that returned.)
Kill(p) ==
    /\ pc[p] \in {"prepare", "body"}
    /\ Forget(p)
    /\ data' = [data EXCEPT ![p] = EmptyData]
    /\ updated' = [updated EXCEPT ![p] = {}]
    /\ result' = [result EXCEPT ![p] = "killed"]
    /\ last' = [op |-> "Kill", p |-> p, k |-> key[p]]
    /\ unflushed' = [unflushed EXCEPT ![p] = <<>>]
    /\ UNCHANGED sideVars
    /\ UNCHANGED <<file, synced, nAttempts, hwm, prevFail>>
    /\ UNCHANGED fsVars

Step(p) ==
    \/ Check(p)
    \/ Partial(p)
    \/ Prepare(p)
    \/ PrepareFail(p)
    \/ Window(p)
    \/ BodyFail(p)
    \/ BodyDone(p)
    \/ Exit(p)
    \/ Kill(p)

\* Workers fanned out over disjoint run keys, the use the index is written for
\* ("Only 1 process will be touching a given key at a time"): each worker runs
\* only the key it owns.
Next ==
    \E p \in Procs :
        \/ \E f \in BOOLEAN : Enter(p, OwnKey(p), f)
        \/ Step(p)

Spec == Init /\ [][Next]_vars

\* Any worker may be started on any run key, also on one another worker is running.
NextShared ==
    \E p \in Procs :
        \/ \E k \in Keys, f \in BOOLEAN : Enter(p, k, f)
        \/ Step(p)

SpecShared == Init /\ [][NextShared]_vars

\* ================================================================ the index alone
\* Two processes using one ExperimentRunIndex file through its methods, in any
\* order, on one key.
SameKey == "k1"
Watermarks == {2}

\* The values the callers of set_key and update_key pass.
SetValues(k) == { RunningValue(k) }
UpdateValues(k) == { ErrorValue(k), DoneValue(k) } \cup { LastSeenValue(w) : w \in Watermarks }

idxRest == <<key, force, att, seek, wpos, nAttempts, committed, hwm, prevFail, resumeOf,
             unflushed, fsVars, sideVars>>

\* __enter__
IdxEnter(p) ==
    /\ pc[p] = "idle"
    /\ pc' = [pc EXCEPT ![p] = "entered"]
    /\ data' = [data EXCEPT ![p] = file]
    /\ result' = [result EXCEPT ![p] = "none"]
    /\ last' = [op |-> "Enter", p |-> p, k |-> NoKey]
    /\ UNCHANGED <<file, updated, synced>>
    /\ UNCHANGED idxRest

\* set_key
IdxSetKey(p, k) ==
    /\ pc[p] = "entered"
    /\ \E val \in SetValues(k) : data' = [data EXCEPT ![p] = SetKey(@, k, val)]
    /\ updated' = [updated EXCEPT ![p] = @ \cup {k}]
    /\ last' = [op |-> "SetKey", p |-> p, k |-> k]
    /\ UNCHANGED <<file, pc, result, synced>>
    /\ UNCHANGED idxRest

\* update_key
IdxUpdateKey(p, k) ==
    /\ pc[p] = "entered"
    /\ \E val \in UpdateValues(k) : data' = [data EXCEPT ![p] = UpdateKey(@, k, val)]
    /\ updated' = [updated EXCEPT ![p] = @ \cup {k}]
    /\ last' = [op |-> "UpdateKey", p |-> p, k |-> k]
    /\ UNCHANGED <<file, pc, result, synced>>
    /\ UNCHANGED idxRest

\* is_done_or_running: _sync, then the state of the key in self.data.
IdxIsDoneOrRunning(p, k) ==
    /\ pc[p] = "entered"
    /\ DoSync(p, data[p], updated[p])
    /\ result' = [result EXCEPT ![p] = IF IsDoneOrRunning(data'[p], k) THEN "true" ELSE "false"]
    /\ last' = [op |-> "IsDoneOrRunning", p |-> p, k |-> k,
                stale |-> k \notin updated[p] /\ data[p][k] # file[k]]
    /\ UNCHANGED pc
    /\ UNCHANGED idxRest

\* __exit__: the last _sync; what it leaves in memory is read by nobody, the next
\* __enter__ loads the file anew.
IdxExit(p) ==
    /\ pc[p] = "entered"
    /\ file' = SyncFile(data[p], updated[p], file)
    /\ synced' = [k \in Keys |-> IF k \in updated[p] THEN data[p][k] ELSE synced[k]]
    /\ data' = [data EXCEPT ![p] = EmptyData]
    /\ updated' = [updated EXCEPT ![p] = {}]
    /\ pc' = [pc EXCEPT ![p] = "idle"]
    /\ result' = [result EXCEPT ![p] = "none"]
    /\ last' = [op |-> "Exit", p |-> p, k |-> NoKey]
    /\ UNCHANGED idxRest

IdxNext ==
    \E p \in Procs :
        \/ IdxEnter(p)
        \/ IdxSetKey(p, SameKey)
        \/ IdxUpdateKey(p, SameKey)
        \/ IdxIsDoneOrRunning(p, SameKey)
        \/ IdxExit(p)

SpecIndex == Init /\ [][IdxNext]_vars

\* ================================================================ text segmenter
\* text_chunks_from_transcript_file, one statement group per step.
MaxSegs == 3

\* Transcripts as Whisper writes them: each segment starts at or after the end of
\* the one before and ends at or after its own start.
Gaps == {0, 1}
Durations == {0, 1}
Texts == { <<"a">>, <<" ", "a">>, <<"b">> }

LastEndOf(t) == IF t = <<>> THEN 0 ELSE t[Len(t)].end

RECURSIVE Transcripts(_)
Transcripts(n) ==
    IF n = 0 THEN { <<>> }
    ELSE LET shorter == Transcripts(n - 1)
         IN shorter \cup
            { Append(t, Seg(LastEndOf(t) + g, LastEndOf(t) + g + d, x)) :
                t \in { u \in shorter : Len(u) = n - 1 },
                g \in Gaps, d \in Durations, x \in Texts }

HelloTranscript ==
    << Seg(0, 5, <<"hello">>), Seg(5, 5, <<"hello">>), Seg(5, 10, <<"world">>) >>

TextInputs == (Transcripts(MaxSegs) \ { <<>> }) \cup { HelloTranscript }
YieldChoices == {1, 2, 8}
SeekChoices == {0, 1, 2, 9}

TextCall ==
    /\ tSegs \in TextInputs /\ tYield \in YieldChoices /\ tSeek \in SeekChoices
    /\ tPc = "start" /\ tIdx = 0
    /\ tBuffer = <<>> /\ tBufferStart = 0 /\ tSpan = 0 /\ tLastEnd = 0
    /\ tLastText = NoText /\ tOut = <<>> /\ tKept = <<>> /\ tHist = <<>>
    /\ tDropped = {} /\ tLast = "call"

textIn == <<tSegs, tYield, tSeek>>

\* if start > segment_len: raise ValueError
TextSeekError ==
    /\ tPc = "start"
    /\ SeekPastEnd(tSegs, tSeek)
    /\ tPc' = "error"
    /\ tLast' = "raise"
    /\ UNCHANGED <<textIn, tIdx, tBuffer, tBufferStart, tSpan, tLastEnd, tLastText, tOut,
                   tKept, tHist, tDropped>>
    /\ UNCHANGED textRest

\* The seek to start_idx and the initialisation of the buffer.
TextSeek ==
    /\ tPc = "start"
    /\ ~SeekPastEnd(tSegs, tSeek)
    /\ LET startIdx == StartIdx(tSegs, tSeek)
       IN /\ tIdx' = startIdx
          /\ tBufferStart' = tSegs[startIdx].start
          /\ tLastEnd' = tSegs[startIdx].start
    /\ tBuffer' = <<>>
    /\ tSpan' = 0
    /\ tLastText' = NoText
    /\ tPc' = "loop"
    /\ tLast' = "seek"
    /\ UNCHANGED <<textIn, tOut, tKept, tHist, tDropped>>
    /\ UNCHANGED textRest

\* The test of line 96 for the segment at tIdx.
IsRepeatMutTextOnly == Strip(tSegs[tIdx].text) = tLastText
IsRepeat == Strip(tSegs[tIdx].text) = tLastText /\ tSegs[tIdx].start = tLastEnd

\* last_end = segment["end"], for a repeat
DiscardLastEndMutKeep == tLastEnd
DiscardLastEnd == tSegs[tIdx].end

\* A repeat: its duration is added to the span, last_end moves on, continue.
TextDiscard ==
    /\ tPc = "loop" /\ tIdx <= Len(tSegs)
    /\ IsRepeat
    /\ tSpan' = tSpan + (tSegs[tIdx].end - tSegs[tIdx].start)
    /\ tLastEnd' = DiscardLastEnd
    /\ tDropped' = tDropped \cup {tIdx}
    /\ tIdx' = tIdx + 1
    /\ tLast' = "discard"
    /\ UNCHANGED <<textIn, tPc, tBuffer, tBufferStart, tLastText, tOut, tKept, tHist>>
    /\ UNCHANGED textRest

\* buffer_span_len once the segment at tIdx has been added to the buffer.
SpanWithMutTwice ==
    tSpan + 2 * (tSegs[tIdx].end - tSegs[tIdx].start) + (tSegs[tIdx].start - tLastEnd)
SpanWith == tSpan + (tSegs[tIdx].end - tSegs[tIdx].start) + (tSegs[tIdx].start - tLastEnd)

\* The segment is added to the buffer, which stays shorter than yield_every.
TextKeep ==
    /\ tPc = "loop" /\ tIdx <= Len(tSegs)
    /\ ~IsRepeat
    /\ SpanWith < tYield
    /\ tBuffer' = Append(tBuffer, Strip(tSegs[tIdx].text))
    /\ tLastText' = Strip(tSegs[tIdx].text)
    /\ tSpan' = SpanWith
    /\ tLastEnd' = tSegs[tIdx].end
    /\ tKept' = Append(tKept, tIdx)
    /\ tIdx' = tIdx + 1
    /\ tLast' = "keep"
    /\ UNCHANGED <<textIn, tPc, tBufferStart, tOut, tHist, tDropped>>
    /\ UNCHANGED textRest

\* buffer_start = last_end, after a yield
NextBufferStartMutStale == tBufferStart
NextBufferStart == tSegs[tIdx].end

\* The segment is added to the buffer and the buffer is yielded.
TextYield ==
    /\ tPc = "loop" /\ tIdx <= Len(tSegs)
    /\ ~IsRepeat
    /\ SpanWith >= tYield
    /\ tOut' = Append(tOut, [text |-> JoinLines(Append(tBuffer, Strip(tSegs[tIdx].text))),
                             start |-> tBufferStart, end |-> tSegs[tIdx].end])
    /\ tHist' = Append(tHist, [kept |-> Append(tKept, tIdx), flush |-> FALSE, read |-> tIdx])
    /\ tLastText' = Strip(tSegs[tIdx].text)
    /\ tBuffer' = <<>>
    /\ tKept' = <<>>
    /\ tSpan' = 0
    /\ tLastEnd' = tSegs[tIdx].end
    /\ tBufferStart' = NextBufferStart
    /\ tIdx' = tIdx + 1
    /\ tLast' = "yield"
    /\ UNCHANGED <<textIn, tPc, tDropped>>
    /\ UNCHANGED textRest

\* if buffer: the flush at the end of the input.
TextFlushMutDrop ==
    /\ tPc = "loop" /\ tIdx > Len(tSegs)
    /\ tBuffer # <<>>
    /\ tPc' = "done"
    /\ tLast' = "flush"
    /\ UNCHANGED <<textIn, tIdx, tBuffer, tBufferStart, tSpan, tLastEnd, tLastText, tOut,
                   tKept, tHist, tDropped>>
    /\ UNCHANGED textRest

TextFlush ==
    /\ tPc = "loop" /\ tIdx > Len(tSegs)
    /\ tBuffer # <<>>
    /\ tOut' = Append(tOut, [text |-> JoinLines(tBuffer), start |-> tBufferStart,
                             end |-> tLastEnd])
    /\ tHist' = Append(tHist, [kept |-> tKept, flush |-> TRUE, read |-> Len(tSegs)])
    /\ tPc' = "done"
    /\ tLast' = "flush"
    /\ UNCHANGED <<textIn, tIdx, tBuffer, tBufferStart, tSpan, tLastEnd, tLastText, tKept,
                   tDropped>>
    /\ UNCHANGED textRest

\* The input ends on an empty buffer.
TextReturn ==
    /\ tPc = "loop" /\ tIdx > Len(tSegs)
    /\ tBuffer = <<>>
    /\ tPc' = "done"
    /\ tLast' = "return"
    /\ UNCHANGED <<textIn, tIdx, tBuffer, tBufferStart, tSpan, tLastEnd, tLastText, tOut,
                   tKept, tHist, tDropped>>
    /\ UNCHANGED textRest

TextNext ==
    \/ TextSeekError
    \/ TextSeek
    \/ TextDiscard
    \/ TextKeep
    \/ TextYield
    \/ TextFlush
    \/ TextReturn

\* ================================================================ audio segmenter
\* audio_chunks_from_file, one statement group per step.
MaxBytes == 9

\* Half byte-times in the time of one byte.
TimesPerByte == 2

AudioLens == 0 .. MaxBytes
AudioYieldChoices == {4, 5, 8}
AudioSeekChoices == {0, 3, 4, 6, 9, 12, 20, 22}

AudioCall ==
    /\ aLen \in AudioLens /\ aYield \in AudioYieldChoices /\ aSeek \in AudioSeekChoices
    /\ aPc = "start" /\ aSec = 0 /\ aOut = <<>>

\* int(48000 * t), t in half byte-times
ByteOf(t) == t \div TimesPerByte

\* sec / bytes_per_sec, as half byte-times
TimeOf(sec) == sec * TimesPerByte

\* start -= start % 2
FrameAlignMutNone(start) == start
FrameAlign(start) == start - (start % 2)

\* The byte the loop starts at.
AudioStart(seekTo) == IF seekTo # 0 THEN FrameAlign(ByteOf(seekTo)) ELSE 0

\* chunk_size
ChunkSize(yieldEvery) == ByteOf(yieldEvery)

Min(a, b) == IF a <= b THEN a ELSE b

audioIn == <<aLen, aYield, aSeek>>

\* Lines 36 to 46: the start offset; no test of it against audio_len.
AudioSeek ==
    /\ aPc = "start"
    /\ aSec' = AudioStart(aSeek)
    /\ aPc' = "loop"
    /\ UNCHANGED <<audioIn, aOut>>
    /\ UNCHANGED audioRest

\* One turn of "for sec in range(start, audio_len, chunk_size)".
AudioYield ==
    /\ aPc = "loop"
    /\ aSec < aLen
    /\ aOut' = Append(aOut, [from |-> aSec, to |-> Min(aSec + ChunkSize(aYield), aLen),
                             start |-> TimeOf(aSec),
                             end |-> TimeOf(aSec + ChunkSize(aYield))])
    /\ aSec' = aSec + ChunkSize(aYield)
    /\ UNCHANGED <<audioIn, aPc>>
    /\ UNCHANGED audioRest

\* The range is exhausted, or was empty from the start.
AudioReturn ==
    /\ aPc = "loop"
    /\ aSec >= aLen
    /\ aPc' = "done"
    /\ UNCHANGED <<audioIn, aSec, aOut>>
    /\ UNCHANGED audioRest

AudioNext ==
    \/ AudioSeek
    \/ AudioYield
    \/ AudioReturn

\* ================================================================ both segmenters
\* One call of one of the two segmenters, on any input of the bounded sets.
SegInit ==
    /\ RunInit /\ LockOff /\ PureOff
    /\ \/ TextCall /\ AudioOff
       \/ AudioCall /\ TextOff

SegNext ==
    \/ TextSeekError
    \/ TextSeek
    \/ TextDiscard
    \/ TextKeep
    \/ TextYield
    \/ TextFlush
    \/ TextReturn
    \/ AudioSeek
    \/ AudioYield
    \/ AudioReturn

SpecSeg == SegInit /\ [][SegNext]_<<textVars, audioVars>>

\* The generator run statement by statement yields what TextChunks computes.
TextAgrees == tPc = "done" => tOut = TextChunks(tSegs, tYield, tSeek)

\* ================================================================ the file lock
\* Experiment.run as a sequence of lock scopes: "with self.flock" in __enter__
\* and in _sync, and the code of run between them.
Locked == {"enterLocked", "checkLocked", "partialLocked", "seenLocked", "finallyLocked",
           "exitLocked"}

LockInit ==
    /\ RunInit /\ TextOff /\ AudioOff /\ PureOff
    /\ lockHolder = "free"
    /\ lpc = [p \in Procs |-> "out"]

\* The holder of the lock once __enter__ has left its "with self.flock" block.
AfterEnterMutHold(p) == p
AfterEnter(p) == "free"

\* __enter__: the lock is taken for the first read of the file.
LockEnter(p) ==
    /\ lpc[p] = "out"
    /\ lockHolder = "free"
    /\ lockHolder' = p
    /\ lpc' = [lpc EXCEPT ![p] = "enterLocked"]
    /\ UNCHANGED lockRest

\* __enter__ returns: the "with self.flock" block has ended.
LockEnterDone(p) ==
    /\ lpc[p] = "enterLocked"
    /\ lockHolder' = AfterEnter(p)
    /\ lpc' = [lpc EXCEPT ![p] = "entered"]
    /\ UNCHANGED lockRest

\* Where each caller of _sync stands while it waits for the lock, and the scope
\* it is in once it has it: is_done_or_running (line 133 of run),
\* is_partially_complete (line 135), update_last_seen (a window is done), the
\* finally of running(), __exit__.
SyncScope(at) ==
    CASE at = "entered" -> "checkLocked"
      [] at = "partial" -> "partialLocked"
      [] at = "body" -> "seenLocked"
      [] at = "finally" -> "finallyLocked"
      [] at = "leaving" -> "exitLocked"
      [] OTHER -> "none"

\* Where the caller goes on when _sync has returned.
SyncReturns(scope) ==
    CASE scope = "checkLocked" -> {"partial", "leaving"}
      [] scope = "partialLocked" -> {"prepared"}
      [] scope = "seenLocked" -> {"body"}
      [] scope = "finallyLocked" -> {"leaving"}
      [] scope = "exitLocked" -> {"out"}
      [] OTHER -> {}

\* _sync: the lock is taken for one read-merge-write cycle.
LockSync(p) ==
    /\ SyncScope(lpc[p]) # "none"
    /\ lockHolder = "free"
    /\ lockHolder' = p
    /\ lpc' = [lpc EXCEPT ![p] = SyncScope(@)]
    /\ UNCHANGED lockRest

\* _sync returns, from either return: the "with self.flock" block has ended.
LockSyncDone(p) ==
    /\ lpc[p] \in Locked \ {"enterLocked"}
    /\ \E next \in SyncReturns(lpc[p]) : lpc' = [lpc EXCEPT ![p] = next]
    /\ lockHolder' = "free"
    /\ UNCHANGED lockRest

\* force_rerun: run goes on without a call of is_done_or_running.
LockForce(p) ==
    /\ lpc[p] = "entered"
    /\ lpc' = [lpc EXCEPT ![p] = "prepared"]
    /\ UNCHANGED lockHolder
    /\ UNCHANGED lockRest

\* Lines 146 to 172 of run: the directories, then running() is entered (set_key,
\* no _sync), or an exception leaves the "with self.run_index" block.
LockRunning(p) ==
    /\ lpc[p] = "prepared"
    /\ \E next \in {"body", "leaving"} : lpc' = [lpc EXCEPT ![p] = next]
    /\ UNCHANGED lockHolder
    /\ UNCHANGED lockRest

\* The body of running() ends, normally or with an exception.
LockBodyEnd(p) ==
    /\ lpc[p] = "body"
    /\ lpc' = [lpc EXCEPT ![p] = "finally"]
    /\ UNCHANGED lockHolder
    /\ UNCHANGED lockRest

\* The process is terminated; the operating system drops the flock it holds.
LockKill(p) ==
    /\ lpc[p] # "out"
    /\ lpc' = [lpc EXCEPT ![p] = "out"]
    /\ lockHolder' = IF lockHolder = p THEN "free" ELSE lockHolder
    /\ UNCHANGED lockRest

LockNext ==
    \E p \in Procs :
        \/ LockEnter(p)
        \/ LockEnterDone(p)
        \/ LockSync(p)
        \/ LockSyncDone(p)
        \/ LockForce(p)
        \/ LockRunning(p)
        \/ LockBodyEnd(p)
        \/ LockKill(p)

SpecLock == LockInit /\ [][LockNext]_lockVars

\* ================================================================ entity matcher
\* extract_gamedata_entities over small texts and catalogs.
MaxText == 4

\* The characters: two cases of one letter, another letter, the space, and a
\* punctuation mark.
Chars == {"a", "A", "b", " ", "-"}

\* \w
IsWord(c) == c \in {"a", "A", "b"}

\* What re.IGNORECASE compares.
Fold(c) == IF c = "A" THEN "a" ELSE c

RECURSIVE TextsOfLen(_)
TextsOfLen(n) ==
    IF n = 0 THEN {<<>>}
    ELSE { Append(t, c) : t \in TextsOfLen(n - 1), c \in Chars }

MatchTexts == UNION { TextsOfLen(n) : n \in 0 .. MaxText }

\* Names nested in one another, and names with a punctuation mark at an end.
NestedCatalog == << <<"a">>, <<"a", " ", "b">>, <<"b">> >>
EdgeCatalog == << <<"a", "b">>, <<"b", "b", "-">>, <<"b", "-">>, <<"-", "a">>, <<"a">> >>
Catalogs == {NestedCatalog, EdgeCatalog}

MatchCall ==
    /\ mText \in MatchTexts /\ mCat \in Catalogs
    /\ mCase \in BOOLEAN /\ mNorm \in BOOLEAN
    /\ mPc = "start" /\ mWork = <<>> /\ mPot = <<>> /\ mOut = <<>>

\* re.sub(r"[^\w ]", " ", text)
Alnum(text) == [i \in DOMAIN text |-> IF IsWord(text[i]) \/ text[i] = " " THEN text[i] ELSE " "]

\* re.sub(r"\s+", " ", alnum)
RECURSIVE Collapse(_)
Collapse(text) ==
    IF Len(text) <= 1 THEN text
    ELSE IF text[1] = " " /\ text[2] = " " THEN Collapse(Tail(text))
    ELSE <<text[1]>> \o Collapse(Tail(text))

DoNormalize(text) == Collapse(Alnum(text))

\* The literal between the two \b of the pattern of a name.
NameRe(name, normalize) == IF normalize THEN DoNormalize(name) ELSE name

\* \b at offset p of text: exactly one of the characters around it is a word character.
WordAt(text, i) == i \in DOMAIN text /\ IsWord(text[i])
Boundary(text, p) == WordAt(text, p) # WordAt(text, p + 1)

\* The pattern \b<literal>\b matches text at offset p.
MatchAt(literal, text, p, ignoreCase) ==
    /\ p + Len(literal) <= Len(text)
    /\ \A j \in DOMAIN literal :
          IF ignoreCase THEN Fold(text[p + j]) = Fold(literal[j]) ELSE text[p + j] = literal[j]
    /\ Boundary(text, p)
    /\ Boundary(text, p + Len(literal))

\* re.finditer: the matches from offset p on, left to right, each search starting
\* where the match before it ended.
RECURSIVE FindIter(_, _, _, _)
FindIter(literal, text, p, ignoreCase) ==
    IF Len(literal) = 0 \/ p + Len(literal) > Len(text) THEN <<>>
    ELSE IF MatchAt(literal, text, p, ignoreCase)
         THEN <<p>> \o FindIter(literal, text, p + Len(literal), ignoreCase)
         ELSE FindIter(literal, text, p + 1, ignoreCase)

\* The matches of the entities e .. Len(catalog), entity by entity.
RECURSIVE FoundFrom(_, _, _, _, _)
FoundFrom(e, query, catalog, caseSensitive, normalize) ==
    IF e > Len(catalog) THEN <<>>
    ELSE LET literal == NameRe(catalog[e], normalize)
             starts == FindIter(literal, query, 0, ~caseSensitive)
         IN [i \in DOMAIN starts |->
                [entity |-> e, start |-> starts[i], end |-> starts[i] + Len(literal)]]
            \o FoundFrom(e + 1, query, catalog, caseSensitive, normalize)

MatchLen(m) == m.end - m.start

\* sorted(matches, key=len, reverse=True): stable, the longest first.
RECURSIVE ByLength(_, _)
ByLength(matches, n) ==
    IF n = 0 THEN <<>>
    ELSE SelectSeq(matches, LAMBDA m : MatchLen(m) = n) \o ByLength(matches, n - 1)

find_potential_gamedata_matches(query, catalog, caseSensitive, normalize) ==
    ByLength(FoundFrom(1, query, catalog, caseSensitive, normalize), Len(query))

\* text[: start] + " " * match_len + text[start + match_len :]
EraseMutKeep(text, m) == text
Erase(text, m) == [i \in DOMAIN text |-> IF m.start < i /\ i <= m.end THEN " " ELSE text[i]]

\* The position test of the removal loop, with both ends of re_match included.
TouchesMutNever(best, other) == FALSE
Touches(best, other) ==
    \/ best.start <= other.start /\ other.start <= best.end
    \/ best.start <= other.end /\ other.end <= best.end

\* re.match(get_gamedata_name_re(entity), text[other.start :]): no flags, and the
\* text cut at the start of the candidate.
StillMatches(other, text, catalog, normalize) ==
    MatchAt(NameRe(catalog[other.entity], normalize),
            SubSeq(text, other.start + 1, Len(text)), 0, FALSE)

matchIn == <<mText, mCat, mCase, mNorm>>

\* Lines 41 to 47: normalize the text and collect the candidates.
MatchFind ==
    /\ mPc = "start"
    /\ mWork' = (IF mNorm THEN DoNormalize(mText) ELSE mText)
    /\ mPot' = find_potential_gamedata_matches(mWork', mCat, mCase, mNorm)
    /\ mPc' = "loop"
    /\ UNCHANGED <<matchIn, mOut>>
    /\ UNCHANGED matchRest

\* One turn of "while potential_matches": accept the first candidate, erase its
\* span, remove the candidates that touch it and no longer match.
MatchAccept ==
    /\ mPc = "loop"
    /\ mPot # <<>>
    /\ LET best == Head(mPot)
           erased == Erase(mWork, best)
       IN /\ mOut' = Append(mOut, best)
          /\ mWork' = erased
          /\ mPot' = SelectSeq(Tail(mPot),
                        LAMBDA other : ~(Touches(best, other)
                                         /\ ~StillMatches(other, erased, mCat, mNorm)))
    /\ UNCHANGED <<matchIn, mPc>>
    /\ UNCHANGED matchRest

\* No candidate is left.
MatchReturn ==
    /\ mPc = "loop"
    /\ mPot = <<>>
    /\ mPc' = "done"
    /\ UNCHANGED <<matchIn, mWork, mPot, mOut>>
    /\ UNCHANGED matchRest

MatchNext ==
    \/ MatchFind
    \/ MatchAccept
    \/ MatchReturn

MatchInit == RunInit /\ TextOff /\ AudioOff /\ LockOff /\ SameOff /\ SpanOff /\ AnnoOff /\ KaniOff /\ MatchCall

SpecMatch == MatchInit /\ [][MatchNext]_matchVars

\* What one call searches: the text, normalized if asked.
Searched == IF mNorm THEN DoNormalize(mText) ELSE mText

\* The candidates of the call: every occurrence of every catalog name.
Candidates == find_potential_gamedata_matches(Searched, mCat, mCase, mNorm)

Range(q) == { q[i] : i \in DOMAIN q }

\* Two spans share a character.
Intersect(m, o) == m.start < o.end /\ o.start < m.end

\* ================================================================ suggestions_are_same
\* The (start, end) of the suggestions compared.
SuggestionSpans == {<<0, 10>>, <<20, 40>>, <<0, 50>>}

\* The suggestion dicts by suggest_type; "roll" stands for a type the function
\* does not know.
GamedataDicts == { [suggest_type |-> "gamedata", entity |-> e] : e \in {"goblin", "orc"} }

ImprovisedDicts ==
    { [suggest_type |-> "improvised_npc", race |-> r, background |-> b, culture |-> c] :
        r \in {"elf", "orc"}, b \in {"sage", "spy"}, c \in {"sea", "hill"} }

NpcNames == {"Akita", "Ara"}
SpeechTexts == {"hello", "hello!", "bye"}

FoundryActions ==
    { [type |-> "send_npc_speech", npc_name |-> n, text |-> t] : n \in NpcNames, t \in SpeechTexts }
    \cup { [type |-> ty, npc_name |-> n] :
             ty \in {"add_npc_to_stage", "remove_npc_from_stage"}, n \in NpcNames }

FoundryDicts == { [suggest_type |-> "foundry", action |-> a] : a \in FoundryActions }

OtherDicts == { [suggest_type |-> "roll"] }

SuggestionDicts == GamedataDicts \cup ImprovisedDicts \cup FoundryDicts \cup OtherDicts

SuggestionLogs ==
    { [start |-> sp[1], end |-> sp[2], suggestion |-> d] :
        sp \in SuggestionSpans, d \in SuggestionDicts }

\* tolerance=30
DefaultTolerance == 30

\* npc_speech_similarity_threshold=80
npc_speech_similarity_threshold == 80

\* npc_speech_similarity_ratio: a symmetric score from 0 to 100, 100 on equal texts.
npc_speech_similarity_ratio(t, u) ==
    IF t = u THEN 100
    ELSE IF {t, u} = {"hello", "hello!"} THEN 91
    ELSE IF {t, u} = {"hello!", "bye"} THEN 80
    ELSE 25

SameCall ==
    /\ sEarlier \in SuggestionLogs /\ sLater \in SuggestionLogs
    /\ sTol = DefaultTolerance
    /\ sNameOnly \in BOOLEAN /\ sStrict \in BOOLEAN
    /\ sPc = "overlap" /\ sResult = "none" /\ sGates = <<>> /\ sRead = {}

Abs(x) == IF x < 0 THEN 0 - x ELSE x

\* later.end < earlier.start
EndsBefore(earlier, later) == later.end < earlier.start

\* abs(later.end - earlier.end)
EndDistanceMutSigned(earlier, later) == later.end - earlier.end
EndDistance(earlier, later) == Abs(later.end - earlier.end)

\* abs(later.end - earlier.end) <= tolerance
WithinToleranceMutAlways(earlier, later, tolerance) == TRUE
WithinTolerance(earlier, later, tolerance) == EndDistance(earlier, later) <= tolerance

\* The three fields compared under strict_match_improvised_npc.
StrictFieldsMutRace == {"race"}
StrictFields == {"race", "background", "culture"}

\* The improvised_npc branch.
SameImprovised(earlier, later, strict) ==
    IF strict
    THEN \A f \in StrictFields : earlier.suggestion[f] = later.suggestion[f]
    ELSE TRUE

\* ratio > npc_speech_similarity_threshold
SimilarMutAtLeast(t, u) == npc_speech_similarity_ratio(t, u) >= npc_speech_similarity_threshold
Similar(t, u) == npc_speech_similarity_ratio(t, u) > npc_speech_similarity_threshold

\* The foundry branch.
SameFoundry(earlier, later, nameOnly) ==
    LET a == earlier.suggestion.action
        b == later.suggestion.action
    IN IF nameOnly THEN a.npc_name = b.npc_name
       ELSE IF a.type # b.type THEN FALSE
       ELSE IF a.type = "send_npc_speech"
            THEN a.npc_name = b.npc_name /\ Similar(a.text, b.text)
            ELSE a.npc_name = b.npc_name

\* Lines 186 to 219: the branch of the common suggest_type.
SamePayload(earlier, later, nameOnly, strict) ==
    LET type == earlier.suggestion.suggest_type
    IN IF type = "gamedata" THEN earlier.suggestion.entity = later.suggestion.entity
       ELSE IF type = "improvised_npc" THEN SameImprovised(earlier, later, strict)
       ELSE IF type = "foundry" THEN SameFoundry(earlier, later, nameOnly)
       ELSE FALSE

\* The fields the branch reads.
PayloadReads(earlier, later, nameOnly, strict) ==
    LET type == earlier.suggestion.suggest_type
    IN IF type = "gamedata" THEN {"entity"}
       ELSE IF type = "improvised_npc" THEN (IF strict THEN StrictFields ELSE {})
       ELSE IF type = "foundry"
            THEN IF nameOnly THEN {"action.npc_name"}
                 ELSE IF earlier.suggestion.action.type # later.suggestion.action.type
                      THEN {"action.type"}
                 ELSE IF earlier.suggestion.action.type = "send_npc_speech"
                      THEN {"action.type", "action.npc_name", "action.text"}
                      ELSE {"action.type", "action.npc_name"}
       ELSE {}

\* The function as a whole.
suggestions_are_same(earlier, later, tolerance, nameOnly, strict) ==
    IF EndsBefore(earlier, later) THEN FALSE
    ELSE IF ~WithinTolerance(earlier, later, tolerance) THEN FALSE
    ELSE IF earlier.suggestion.suggest_type # later.suggestion.suggest_type THEN FALSE
    ELSE SamePayload(earlier, later, nameOnly, strict)

sameIn == <<sEarlier, sLater, sTol, sNameOnly, sStrict>>

\* Lines 178-179.
SameOverlap ==
    /\ sPc = "overlap"
    /\ sGates' = Append(sGates, "overlap")
    /\ IF EndsBefore(sEarlier, sLater)
       THEN sResult' = FALSE /\ sPc' = "done"
       ELSE sResult' = sResult /\ sPc' = "tolerance"
    /\ UNCHANGED <<sameIn, sRead>>
    /\ UNCHANGED sameRest

\* Lines 180-181.
SameTolerance ==
    /\ sPc = "tolerance"
    /\ sGates' = Append(sGates, "tolerance")
    /\ IF ~WithinTolerance(sEarlier, sLater, sTol)
       THEN sResult' = FALSE /\ sPc' = "done"
       ELSE sResult' = sResult /\ sPc' = "category"
    /\ UNCHANGED <<sameIn, sRead>>
    /\ UNCHANGED sameRest

\* Lines 182-184.
SameCategory ==
    /\ sPc = "category"
    /\ sGates' = Append(sGates, "category")
    /\ IF sEarlier.suggestion.suggest_type # sLater.suggestion.suggest_type
       THEN sResult' = FALSE /\ sPc' = "done"
       ELSE sResult' = sResult /\ sPc' = sEarlier.suggestion.suggest_type
    /\ UNCHANGED <<sameIn, sRead>>
    /\ UNCHANGED sameRest

\* The branch of one known suggest_type.
SameBranch(type) ==
    /\ sPc = type
    /\ sResult' = SamePayload(sEarlier, sLater, sNameOnly, sStrict)
    /\ sRead' = PayloadReads(sEarlier, sLater, sNameOnly, sStrict)
    /\ sPc' = "done"
    /\ UNCHANGED <<sameIn, sGates>>
    /\ UNCHANGED sameRest

\* Lines 186-188.
SameGamedata == SameBranch("gamedata")

\* Lines 189-193.
SameImprovisedNpc == SameBranch("improvised_npc")

\* Lines 194-216.
SameFoundryAction == SameBranch("foundry")

\* Lines 218-219: no branch for the suggest_type.
SameUnhandled ==
    /\ sPc \notin {"off", "overlap", "tolerance", "category", "done",
                   "gamedata", "improvised_npc", "foundry"}
    /\ sResult' = FALSE
    /\ sPc' = "done"
    /\ UNCHANGED <<sameIn, sGates, sRead>>
    /\ UNCHANGED sameRest

SameNext ==
    \/ SameOverlap
    \/ SameTolerance
    \/ SameCategory
    \/ SameGamedata
    \/ SameImprovisedNpc
    \/ SameFoundryAction
    \/ SameUnhandled

SameInit == RunInit /\ TextOff /\ AudioOff /\ LockOff /\ MatchOff /\ SpanOff /\ AnnoOff /\ KaniOff /\ SameCall

SpecSame == SameInit /\ [][SameNext]_sameVars

\* The call run statement by statement returns what suggestions_are_same computes.
SameAgrees ==
    sPc = "done" => sResult = suggestions_are_same(sEarlier, sLater, sTol, sNameOnly, sStrict)

\* The three tests of lines 178 to 183 have all passed.
GatesPass ==
    /\ ~EndsBefore(sEarlier, sLater)
    /\ Abs(sLater.end - sEarlier.end) <= sTol
    /\ sEarlier.suggestion.suggest_type = sLater.suggestion.suggest_type

\* ================================================================ span search
\* The loop of run_text_span_search over the windows of a transcript, each with
\* the matches the two matchers return in it.
MaxWindows == 3

\* suggestion_debounce
suggestion_debounce == 300

\* The default of suggestion_seen_at, -9999.9, to the whole second.
NeverSeen == -10000

\* last_suggestion = None
NoSuggestionKey == <<>>

WindowEnds == {100, 400, 401, 800}
EntityMatches == {<<>>, <<"goblin">>, <<"goblin", "goblin">>, <<"goblin", "orc">>}
NpcMatches == {<<>>, <<"Akita">>, <<"Akita", "Akita", "Akita">>}

\* The keys (suggestion_type, suggestion_name) the loop can meet.
SpanKeys ==
    { <<"Monster", n>> : n \in {"goblin", "orc"} }
    \cup { <<t, "Akita">> : t \in {"stage_npc", "unstage_npc"} }

\* The sequences of up to n windows with ends in ascending order, all after `after`.
RECURSIVE WindowSeqs(_, _)
WindowSeqs(n, after) ==
    IF n = 0 THEN {<<>>}
    ELSE {<<>>} \cup
         UNION { { <<[end |-> e, entities |-> es, npcs |-> ns]>> \o rest :
                     es \in EntityMatches, ns \in NpcMatches, rest \in WindowSeqs(n - 1, e) } :
                 e \in { x \in WindowEnds : x > after } }

\* The runs where the goblin is matched in windows ending at 10, 20 and 320,
\* alone or next to another entity.
DebounceEnds == <<10, 20, 320>>
DebounceEntities == {<<"goblin">>, <<"goblin", "orc">>, <<"orc", "goblin">>}
DebounceRuns ==
    { [w \in 1 .. 3 |-> [end |-> DebounceEnds[w], entities |-> es[w], npcs |-> <<>>]] :
        es \in [1 .. 3 -> DebounceEntities] }

SpanCall ==
    /\ dWins \in WindowSeqs(MaxWindows, 0) \cup DebounceRuns
    /\ dPc = "window" /\ dW = 0 /\ dTuples = <<>> /\ dI = 0
    /\ dLast = NoSuggestionKey
    /\ dSeenAt = [k \in SpanKeys |-> NeverSeen]
    /\ dSeenSpan = {} /\ dStaged = {} /\ dLog = <<>> /\ dHist = <<>>

\* Lines 252 to 260: one tuple per entity match.
EntityTuples(entities) == [i \in DOMAIN entities |-> <<"Monster", entities[i]>>]

\* Lines 263 to 272: one tuple per NPC match, staging an NPC that is off stage
\* and unstaging one that is on stage.
RECURSIVE NpcTuples(_, _)
NpcTuples(npcs, staged) ==
    IF npcs = <<>> THEN <<>>
    ELSE IF Head(npcs) \notin staged
         THEN << <<"stage_npc", Head(npcs)>> >> \o NpcTuples(Tail(npcs), staged \cup {Head(npcs)})
         ELSE << <<"unstage_npc", Head(npcs)>> >> \o NpcTuples(Tail(npcs), staged \ {Head(npcs)})

\* staged_npcs after the NPC matches of a window.
RECURSIVE StagedAfter(_, _)
StagedAfter(npcs, staged) ==
    IF npcs = <<>> THEN staged
    ELSE IF Head(npcs) \notin staged
         THEN StagedAfter(Tail(npcs), staged \cup {Head(npcs)})
         ELSE StagedAfter(Tail(npcs), staged \ {Head(npcs)})

\* end - suggestion_seen_at[key] <= suggestion_debounce
DebouncedMutStrict(end, seenAt) == end - seenAt < suggestion_debounce
Debounced(end, seenAt) == end - seenAt <= suggestion_debounce

\* The three tests of lines 277 to 284: one of them skips the tuple.
SkippedMutNoLast(k, end) ==
    \/ k \in dSeenSpan
    \/ Debounced(end, dSeenAt[k])

Skipped(k, end) ==
    \/ k \in dSeenSpan
    \/ dLast = k
    \/ Debounced(end, dSeenAt[k])

\* "continue": suggestion_seen_at as a skipped tuple leaves it.
SeenAtAfterSkipMutTouch(seenAt, k, end) == [seenAt EXCEPT ![k] = end]
SeenAtAfterSkip(seenAt, k, end) == seenAt

spanIn == <<dWins>>

\* Lines 243 to 272: the next window, its tuples, an empty seen_this_span.
SpanWindow ==
    /\ dPc = "window"
    /\ dW < Len(dWins)
    /\ dW' = dW + 1
    /\ LET win == dWins[dW + 1]
       IN /\ dTuples' = EntityTuples(win.entities) \o NpcTuples(win.npcs, dStaged)
          /\ dStaged' = StagedAfter(win.npcs, dStaged)
    /\ dSeenSpan' = {}
    /\ dI' = 1
    /\ dPc' = "tuples"
    /\ UNCHANGED <<spanIn, dLast, dSeenAt, dLog, dHist>>
    /\ UNCHANGED spanRest

\* Lines 277 to 284: "continue".
SpanSkip ==
    /\ dPc = "tuples"
    /\ dI <= Len(dTuples)
    /\ Skipped(dTuples[dI], dWins[dW].end)
    /\ dI' = dI + 1
    /\ dHist' = Append(dHist, [key |-> dTuples[dI], w |-> dW, end |-> dWins[dW].end,
                               written |-> FALSE])
    /\ dSeenAt' = SeenAtAfterSkip(dSeenAt, dTuples[dI], dWins[dW].end)
    /\ UNCHANGED <<spanIn, dPc, dW, dTuples, dLast, dSeenSpan, dStaged, dLog>>
    /\ UNCHANGED spanRest

\* Lines 287 to 296: commit the suggestion and write it.
SpanEmit ==
    /\ dPc = "tuples"
    /\ dI <= Len(dTuples)
    /\ ~Skipped(dTuples[dI], dWins[dW].end)
    /\ LET k == dTuples[dI]
           end == dWins[dW].end
       IN /\ dSeenSpan' = dSeenSpan \cup {k}
          /\ dLast' = k
          /\ dSeenAt' = [dSeenAt EXCEPT ![k] = end]
          /\ dLog' = Append(dLog, [key |-> k, w |-> dW, end |-> end])
          /\ dHist' = Append(dHist, [key |-> k, w |-> dW, end |-> end, written |-> TRUE])
    /\ dI' = dI + 1
    /\ UNCHANGED <<spanIn, dPc, dW, dTuples, dStaged>>
    /\ UNCHANGED spanRest

\* Line 297: the tuples of the window are done, the watermark is written.
SpanWindowEnd ==
    /\ dPc = "tuples"
    /\ dI > Len(dTuples)
    /\ dPc' = "window"
    /\ UNCHANGED <<spanIn, dW, dTuples, dI, dLast, dSeenAt, dSeenSpan, dStaged, dLog, dHist>>
    /\ UNCHANGED spanRest

\* Lines 298 to 300: no window is left.
SpanReturn ==
    /\ dPc = "window"
    /\ dW = Len(dWins)
    /\ dPc' = "done"
    /\ UNCHANGED <<spanIn, dW, dTuples, dI, dLast, dSeenAt, dSeenSpan, dStaged, dLog, dHist>>
    /\ UNCHANGED spanRest

SpanNext ==
    \/ SpanWindow
    \/ SpanSkip
    \/ SpanEmit
    \/ SpanWindowEnd
    \/ SpanReturn

SpanInit == RunInit /\ TextOff /\ AudioOff /\ LockOff /\ MatchOff /\ SameOff /\ AnnoOff /\ KaniOff /\ SpanCall

SpecSpan == SpanInit /\ [][SpanNext]_spanVars

\* ================================================================ annotation server
\* post_annotation over the suggestions of one experiment.
SAME_SUGGESTION_TOLERANCE == 30
SAME_SUGGESTION_TOLERANCE_POSITIVE_GAMEDATA == 300

\* bulk_apply_duration: int = 99999
DefaultBulkApplyDuration == 99999

Goblin == [suggest_type |-> "gamedata", entity |-> "goblin"]
Orc == [suggest_type |-> "gamedata", entity |-> "orc"]
StageAkita == [suggest_type |-> "foundry", action |-> [type |-> "add_npc_to_stage", npc_name |-> "Akita"]]
UnstageAkita ==
    [suggest_type |-> "foundry", action |-> [type |-> "remove_npc_from_stage", npc_name |-> "Akita"]]
ElfSage == [suggest_type |-> "improvised_npc", race |-> "elf", background |-> "sage", culture |-> "sea"]
ElfSpy == [suggest_type |-> "improvised_npc", race |-> "elf", background |-> "spy", culture |-> "sea"]

SuggestionLog(id, model, start, end, dict) ==
    [suggestion_id |-> id, model_key |-> model, start |-> start, end |-> end, suggestion |-> dict]

\* Suggestions of one entity 10, 30 and 300 after the first, one of them of a
\* model that is not annotated.
GamedataRun ==
    << SuggestionLog("s1", "text.spans", 0, 10, Goblin),
       SuggestionLog("s2", "text.spans", 5, 15, Orc),
       SuggestionLog("s3", "qwen-25.7b", 10, 20, Goblin),
       SuggestionLog("s4", "openai.gpt", 30, 40, Goblin),
       SuggestionLog("s5", "text.spans", 300, 310, Goblin) >>

\* Stage actions and improvised NPCs.
FoundryRun ==
    << SuggestionLog("s1", "text.spans", 0, 10, StageAkita),
       SuggestionLog("s2", "openai.gpt", 10, 20, ElfSage),
       SuggestionLog("s3", "openai.gpt", 20, 30, ElfSpy),
       SuggestionLog("s4", "openai.gpt", 30, 40, StageAkita),
       SuggestionLog("s5", "text.spans", 490, 500, UnstageAkita) >>

\* The annotator whose calls are followed; the records of the other are in the annos.
Caller == "ann"

LabelledSuggestion(id, who, score, labels, comment, why) ==
    [suggestion_id |-> id, who |-> who, score |-> score, labels |-> labels,
     comment |-> comment, why |-> why]

Manual == <<"manual">>

\* f"copied from {req.suggestion_id} @ tolerance {tolerance}"
CopiedFrom(id, tolerance) == <<"copied from", id, "@ tolerance", tolerance>>

AnnoCall ==
    /\ nSugs \in {GamedataRun, FoundryRun}
    /\ nFile \in { <<>>,
                   << LabelledSuggestion("s1", "bob", 1, <<"useful">>, "none", Manual),
                      LabelledSuggestion("s4", "bob", 1, <<"useful">>, "none",
                                         CopiedFrom("s1", SAME_SUGGESTION_TOLERANCE)) >> }
    /\ nCalls = <<>>

\* The requests: score, labels and comment, and the bulk flags with their duration.
Verdicts ==
    { [score |-> 1, labels |-> <<"useful">>, comment |-> "none"],
      [score |-> -1, labels |-> <<"wrong">>, comment |-> "typo"] }

BulkFlags ==
    { [apply_to_rest |-> FALSE, apply_to_all_of_npc |-> FALSE,
       bulk_apply_duration |-> DefaultBulkApplyDuration],
      [apply_to_rest |-> TRUE, apply_to_all_of_npc |-> FALSE, bulk_apply_duration |-> 100],
      [apply_to_rest |-> FALSE, apply_to_all_of_npc |-> TRUE,
       bulk_apply_duration |-> DefaultBulkApplyDuration] }

Requests ==
    { [username |-> Caller, suggestion_id |-> id, score |-> v.score, labels |-> v.labels,
       comment |-> v.comment, apply_to_rest |-> b.apply_to_rest,
       apply_to_all_of_npc |-> b.apply_to_all_of_npc,
       bulk_apply_duration |-> b.bulk_apply_duration] :
        id \in {"s1", "s2", "s3", "s4", "s5"}, v \in Verdicts, b \in BulkFlags }

\* next(s for s in all_suggestions if s.suggestion_id == id)
SuggestionOf(sugs, id) == sugs[CHOOSE i \in DOMAIN sugs : sugs[i].suggestion_id = id]

\* count_suggestions_by_model_and_type(...)[m].total()
CountOf(sugs, m) == Cardinality({ i \in DOMAIN sugs : sugs[i].model_key = m })

ModelKeys(sugs) == { sugs[i].model_key : i \in DOMAIN sugs }

\* "openai" in m, and m.startswith(("qwen-25.", "phi-4.")), on the model keys used.
IsOpenAI(m) == m \in {"openai.gpt"}
IsDropped(m) == m \in {"qwen-25.7b", "phi-4.14b"}

\* ignored_model_ids
IgnoredModels(sugs) ==
    { m \in ModelKeys(sugs) :
        \/ CountOf(sugs, m) > CountOf(sugs, "text.spans") /\ ~IsOpenAI(m)
        \/ IsDropped(m) }

\* get_user_annotations
UserAnnotations(annos, username) == SelectSeq(annos, LAMBDA l : l.who = username)

\* get_annotations_to_do: suggestions_to_do
SuggestionsToDo(sugs, annos, username) ==
    LET ignored == IgnoredModels(sugs)
        previous == UserAnnotations(annos, username)
        filtered == SelectSeq(sugs, LAMBDA s : s.model_key \notin ignored)
        labelled == { previous[i].suggestion_id : i \in
                        { j \in DOMAIN previous :
                            SuggestionOf(sugs, previous[j].suggestion_id).model_key \notin ignored } }
    IN SelectSeq(filtered, LAMBDA s : s.suggestion_id \notin labelled)

\* other_suggestion.end >= src.end
NotBeforeMutAny(src, other) == TRUE
NotBefore(src, other) == other.end >= src.end

get_same_suggestions(src, others, tolerance, nameOnly, strict) ==
    SelectSeq(others, LAMBDA o : NotBefore(src, o)
                                 /\ suggestions_are_same(src, o, tolerance, nameOnly, strict))

\* Lines 141 to 146.
ToleranceOf(req, suggestion) ==
    IF req.apply_to_rest \/ req.apply_to_all_of_npc THEN req.bulk_apply_duration
    ELSE IF req.score > 0 /\ suggestion.suggestion.suggest_type = "gamedata"
         THEN SAME_SUGGESTION_TOLERANCE_POSITIVE_GAMEDATA
         ELSE SAME_SUGGESTION_TOLERANCE

\* save_annotation
save_annotation(annos, annotation) == Append(annos, annotation)

\* The annos get_annotations_to_do reads at line 148: the label of line 137 is in it.
FileAtToDoMutBefore(before, after) == before
FileAtToDo(before, after) == after

\* The ids of a sequence of suggestions.
IdsOf(sugs) == { sugs[i].suggestion_id : i \in DOMAIN sugs }

\* post_annotation, for a suggestion that is to do for the caller.
PostAnnotation(req) ==
    /\ nSugs # <<>>
    /\ req.suggestion_id \in IdsOf(SuggestionsToDo(nSugs, nFile, req.username))
    /\ LET suggestion == SuggestionOf(nSugs, req.suggestion_id)
           label == LabelledSuggestion(req.suggestion_id, req.username, req.score,
                                       req.labels, req.comment, Manual)
           saved == save_annotation(nFile, label)
           tolerance == ToleranceOf(req, suggestion)
           todo == SuggestionsToDo(nSugs, FileAtToDo(nFile, saved), req.username)
           same == get_same_suggestions(suggestion, todo, tolerance,
                                        req.apply_to_all_of_npc, req.apply_to_rest)
       IN /\ nFile' = saved \o
                 [i \in DOMAIN same |->
                     LabelledSuggestion(same[i].suggestion_id, req.username, req.score,
                                        req.labels, req.comment,
                                        CopiedFrom(req.suggestion_id, tolerance))]
          /\ nCalls' = << [req |-> req, at |-> Len(nFile),
                            todo |-> IdsOf(SuggestionsToDo(nSugs, nFile, req.username))] >>
    /\ UNCHANGED nSugs
    /\ UNCHANGED annoRest

AnnoNext == \E req \in Requests : PostAnnotation(req)

AnnoInit == RunInit /\ TextOff /\ AudioOff /\ LockOff /\ MatchOff /\ SameOff /\ SpanOff /\ KaniOff /\ AnnoCall

SpecAnno == AnnoInit /\ [][AnnoNext]_annoVars

\* ================================================================ realtime reconnect
\* BaseRealtimeKani.reconnect.
MaxRetries == 3

\* retry_attempts: int = 5, and the 12 of _on_connection_state_change.
DefaultRetryAttempts == 5
DisconnectRetryAttempts == 12

RetryAttempts == (0..MaxRetries) \cup {DefaultRetryAttempts, DisconnectRetryAttempts}

Max(a, b) == IF a >= b THEN a ELSE b

RECURSIVE Pow2(_)
Pow2(i) == IF i = 0 THEN 1 ELSE 2 * Pow2(i - 1)

UserAudio(secs) == [role |-> "user", audio |-> secs]
AssistantText == [role |-> "assistant", audio |-> 0]

\* chat_history_from_session_state(self.session)
SessionStates ==
    { <<>>,
      <<UserAudio(10), AssistantText>>,
      <<UserAudio(10), AssistantText, UserAudio(5), AssistantText>> }

ReuploadSecs == {0, 5, 10}

\* The loop of lines 280 to 287: idx counts from the end of the backup.
RECURSIVE SliceIdx(_, _, _, _)
SliceIdx(backup, secs, idx, accumulated) ==
    IF idx >= Len(backup) THEN 0
    ELSE LET msg == backup[Len(backup) - idx]
             acc == accumulated + msg.audio
         IN IF acc >= secs /\ msg.role = "user" THEN Len(backup) - (idx + 1)
            ELSE SliceIdx(backup, secs, idx + 1, acc)

ReconnectCall ==
    /\ rPc = "call"
    /\ rAttempts \in RetryAttempts
    /\ rSession \in SessionStates
    /\ rReupload \in ReuploadSecs
    /\ rRetryIdx = 0 /\ rBackup = <<>> /\ rHistory = <<>> /\ rFailed = 0
    /\ rConnected = FALSE /\ rSlept = <<>> /\ rOldClosed = FALSE /\ rReported = FALSE

\* Lines 248 to 296, up to the loop; has_connected_once is the input.
ReconnectBegin(has_connected_once) ==
    /\ rPc = "call"
    /\ IF ~has_connected_once
       THEN /\ rPc' = "raised"
            /\ UNCHANGED <<rAttempts, rBackup, rHistory>>
       ELSE LET backup == rBackup \o rSession
                slice_idx == SliceIdx(backup, rReupload, 0, 0)
            IN /\ rAttempts' = Max(rAttempts, 1)
               /\ IF rReupload = 0
                  THEN rHistory' = <<>> /\ rBackup' = backup
                  ELSE /\ rHistory' = SubSeq(backup, slice_idx + 1, Len(backup))
                       /\ rBackup' = SubSeq(backup, 1, slice_idx)
               /\ rPc' = "connect"
    /\ UNCHANGED <<rRetryIdx, rSession, rReupload, rFailed, rConnected, rSlept, rOldClosed, rReported>>
    /\ UNCHANGED reconnectRest

\* The test of line 301.
LastAttempt(retry_idx, retry_attempts) == retry_idx = retry_attempts

\* await self.connect(...) raises: lines 300 to 310, then the next turn of the loop.
ConnectFails ==
    /\ rPc = "connect"
    /\ rFailed' = rFailed + 1
    /\ IF LastAttempt(rRetryIdx, rAttempts)
       THEN rPc' = "raised" /\ UNCHANGED <<rRetryIdx, rSlept>>
       ELSE /\ rSlept' = Append(rSlept, Pow2(rRetryIdx))
            /\ rRetryIdx' = rRetryIdx + 1
            /\ rPc' = IF rRetryIdx + 1 < rAttempts THEN "connect" ELSE "close"
    /\ UNCHANGED <<rAttempts, rSession, rReupload, rBackup, rHistory, rConnected, rOldClosed, rReported>>
    /\ UNCHANGED reconnectRest

\* await self.connect(...) returns: the else branch breaks out of the loop.
ConnectSucceeds ==
    /\ rPc = "connect"
    /\ rConnected' = TRUE
    /\ rPc' = "close"
    /\ UNCHANGED <<rAttempts, rRetryIdx, rSession, rReupload, rBackup, rHistory, rFailed, rSlept,
                   rOldClosed, rReported>>
    /\ UNCHANGED reconnectRest

\* Lines 314 and 315.
ReconnectEnd ==
    /\ rPc = "close"
    /\ rOldClosed' = TRUE
    /\ rReported' = TRUE
    /\ rPc' = "returned"
    /\ UNCHANGED <<rAttempts, rRetryIdx, rSession, rReupload, rBackup, rHistory, rFailed, rConnected,
                   rSlept>>
    /\ UNCHANGED reconnectRest

ReconnectNext ==
    \/ \E has_connected_once \in BOOLEAN : ReconnectBegin(has_connected_once)
    \/ ConnectFails
    \/ ConnectSucceeds
    \/ ReconnectEnd

ReconnectInit ==
    /\ RunInit /\ TextOff /\ AudioOff /\ LockOff
    /\ MatchOff /\ SameOff /\ SpanOff /\ AnnoOff /\ DedupOff /\ ReconnectCall

SpecReconnect == ReconnectInit /\ [][ReconnectNext]_reconnectVars

\* ================================================================ reset on duplicates
\* ResetContextOnDuplicatesMixin.
MaxMessages == 5

\* max_consecutive_duplicates=2
DefaultMaxConsecutiveDuplicates == 2

\* The content of a message with no text, None, and two texts.
NoneContent == "None"
Contents == {NoneContent, "a", "b"}

\* __init__
DedupCall ==
    /\ gOn = TRUE
    /\ gMax \in {1, DefaultMaxConsecutiveDuplicates, 3}
    /\ gHistory = <<>>
    /\ gLast = NoneContent
    /\ gSeen = 0
    /\ gStartIdx = 0
    /\ gResets = {}

\* The comparison of line 172.
IsDuplicate(content, seen) == content = seen

\* add_completion_to_history
AddCompletionToHistory(content) ==
    /\ gOn
    /\ Len(gHistory) < MaxMessages
    /\ gHistory' = Append(gHistory, content)
    /\ IF IsDuplicate(content, gLast)
       THEN IF gSeen + 1 >= gMax
            THEN /\ gStartIdx' = Len(gHistory) + 1
                 /\ gResets' = gResets \cup {Len(gHistory) + 1}
                 /\ gSeen' = 0
                 /\ gLast' = NoneContent
            ELSE /\ gSeen' = gSeen + 1
                 /\ UNCHANGED <<gStartIdx, gResets, gLast>>
       ELSE /\ gSeen' = 0
            /\ gLast' = content
            /\ UNCHANGED <<gStartIdx, gResets>>
    /\ UNCHANGED <<gOn, gMax>>
    /\ UNCHANGED dedupRest

DedupNext == \E content \in Contents : AddCompletionToHistory(content)

DedupInit ==
    /\ RunInit /\ TextOff /\ AudioOff /\ LockOff
    /\ MatchOff /\ SameOff /\ SpanOff /\ AnnoOff /\ ReconnectOff /\ DedupCall

SpecDedup == DedupInit /\ [][DedupNext]_dedupVars

\* ================================================================ claims

\* C1: with workers on disjoint run keys, no sync of one worker overwrites or
\* removes the record of another worker's key: after every step the file holds,
\* for each key, the record last synced for it by the worker that updated it.
C1_NoClobber == \A k \in Keys : file[k] = synced[k]

\* C1 happens: p2 has just written its own record while p1, in its run body, has
\* a record in the file that p2 read some syncs ago.
C1_Witness ==
    /\ last.p = "p2" /\ last.op \in {"Window", "BodyFail", "BodyDone"}
    /\ pc["p1"] = "body" /\ file["k1"].state = "running" /\ file["k1"].lp > 0
    /\ file["k2"].state # "none"

\* C2: when the body of the running scope ends normally the record of the key is
\* marked done with its output path, and as soon as the scope has returned (and
\* still when run has returned) the index file shows state done for the key.
C2_NormalExitDone ==
    /\ last.op = "BodyDone" =>
          /\ data[last.p][last.k].state = "done"
          /\ file[last.k].state = "done"
          /\ file[last.k].path = PathOf(last.k)
          /\ updated[last.p] = {}
    /\ (last.op = "Exit" /\ result[last.p] = "done") => file[last.k].state = "done"

\* C2 happens: a running scope that processed windows has just exited normally.
C2_Witness == last.op = "BodyDone" /\ file[last.k].lp > 0 /\ result[last.p] = "done"

\* C3: when an exception escapes the body of the running scope the record is
\* marked error with the trace, the file holds it when the scope is left, the
\* exception goes on to the caller of run, and the key is not left running or done.
C3_ErrorExit ==
    /\ last.op = "BodyFail" =>
          /\ file[last.k].state = "error"
          /\ file[last.k].error = "trace"
          /\ file[last.k].path = PathOf(last.k)
          /\ updated[last.p] = {}
          /\ pc[last.p] = "exit" /\ result[last.p] = "error"
    /\ (last.op = "Exit" /\ result[last.p] = "error") =>
          /\ file[last.k].state = "error"
          /\ pc[last.p] = "idle"

\* C3 happens: run has ended with the exception that escaped the body.
C3_Witness == last.op = "Exit" /\ result[last.p] = "error" /\ file[last.k].lp > 0

\* C4: update_last_seen(key, t) changes only last_processed in the record of the
\* key (state, path and error stay), leaves every other key of the file as it was,
\* and the file holds the new watermark when the call returns.
C4_WatermarkFrame ==
    [][\A p \in Procs :
          wpos'[p] = wpos[p] + 1 =>
              LET k == key[p]
                  t == Windows(p)[wpos'[p]].end
              IN /\ data'[p][k] = [data[p][k] EXCEPT !.lp = t]
                 /\ file'[k] = data'[p][k]
                 /\ file'[k].lp = t
                 /\ \A k2 \in Keys \ {k} : file'[k2] = file[k2]]_vars

\* C4 happens: a watermark was just written while the file holds another key's record.
C4_Witness ==
    /\ last.op = "Window"
    /\ file[last.k].lp > 0 /\ file[last.k].state = "running"
    /\ \E k2 \in Keys \ {last.k} : file[k2].state # "none"

\* C5: two workers that call run for the same key without force_rerun never both
\* execute the run body.
C5_NoDoubleRun ==
    \A p, q \in Procs :
        (p # q /\ key[p] = key[q] /\ ~force[p] /\ ~force[q])
            => ~(pc[p] = "body" /\ pc[q] = "body")

C7_WatermarkKept ==
    \A k \in Keys : file[k].state = "error" => file[k].lp >= hwm[k]

\* C8: under force_rerun the attempt starts at position 0 whatever is recorded for
\* the key, the record it writes carries no watermark but its own, and a
\* directory is removed only after it was archived.
C8_ForceRestarts ==
    /\ \A p \in Procs :
          /\ (force[p] /\ pc[p] \in {"prepare", "body", "exit"}) => seek[p] = 0
          /\ (force[p] /\ pc[p] = "body") => data[p][key[p]].lp = committed[p]
          /\ (force[p] /\ last.p = p /\ last.op \in {"Window", "BodyFail", "BodyDone"})
                => file[key[p]].lp = committed[p]
    /\ \A k \in Keys : removed[k] \subseteq archived[k]

\* C8 happens: a forced attempt has entered its scope on a key whose record in
\* the file still shows the old watermark and whose old directory it archived
\* and removed.
C8_Witness ==
    \E p \in Procs :
        /\ force[p] /\ pc[p] = "body" /\ committed[p] = Absent
        /\ file[key[p]].lp > 0
        /\ bak[key[p]] \in removed[key[p]]

\* The edges of the state machine of a run key.
C9_Edges == { <<"none", "running">>, <<"running", "done">>, <<"running", "error">>,
              <<"error", "running">> }

\* C9: without force_rerun the state recorded for a key changes only along
\* none -> running, running -> done, running -> error, error -> running, and a
\* key becomes done only by the normal exit of a running scope.
C9_StateMachine ==
    [][\A k \in Keys :
          (file'[k].state # file[k].state /\ ~force[last'.p]) =>
              /\ <<file[k].state, file'[k].state>> \in C9_Edges
              /\ (file'[k].state = "done" => last'.op = "BodyDone")]_vars

\* C10: run without force_rerun on a key recorded as done skips: no window is
\* processed, the index file is left as it is and no directory is touched, up to
\* the return of run.
C10_DoneIsSkipped ==
    [][\A p \in Procs :
          /\ (pc[p] = "entered" /\ pc'[p] # "entered" /\ ~force[p]
                /\ file[key[p]].state = "done") =>
                /\ pc'[p] = "exit" /\ result'[p] = "skipped"
                /\ wpos'[p] = 0
                /\ file' = file
                /\ UNCHANGED fsVars
          /\ (pc[p] = "exit" /\ pc'[p] # "exit" /\ result[p] = "skipped") =>
                /\ pc'[p] = "idle"
                /\ file' = file
                /\ UNCHANGED fsVars]_vars

\* C10 happens: a run on a done key with an existing directory has returned, skipped.
C10_Witness ==
    /\ last.op = "Exit" /\ result[last.p] = "skipped"
    /\ file[last.k].state = "done" /\ logDir[last.k] # 0

\* The segments kept so far in this call: those of the yielded windows and those
\* in the buffer.
C15_Kept ==
    { tKept[i] : i \in DOMAIN tKept } \cup
    UNION { { tHist[j].kept[i] : i \in DOMAIN tHist[j].kept } : j \in DOMAIN tHist }

C15_KeptBefore(i) == { j \in C15_Kept : j < i }

C15_LastKeptBefore(i) == CHOOSE j \in C15_KeptBefore(i) : \A m \in C15_KeptBefore(i) : m <= j

\* C15: a segment the call has read is discarded if and only if its stripped
\* text equals the text, as kept, of the segment kept most recently before it and
\* its start equals the end of the segment immediately before it; every other
\* segment read is kept. The transcript (0,5,hello) (5,5,hello) (5,10,world) with
\* yieldEvery 8 gives the one window (hello\nworld, 0, 10).
C15_DiscardRule ==
    /\ tPc \in {"loop", "done"} =>
          \A i \in StartIdx(tSegs, tSeek) .. (tIdx - 1) :
              /\ (i \in tDropped) = (i \notin C15_Kept)
              /\ (i \in tDropped) <=>
                    /\ C15_KeptBefore(i) # {}
                    /\ Strip(tSegs[i].text) = Strip(tSegs[C15_LastKeptBefore(i)].text)
                    /\ tSegs[i].start = tSegs[i - 1].end
    /\ (tPc = "done" /\ tSegs = HelloTranscript /\ tYield = 8 /\ tSeek = 0) =>
          tOut = << [text |-> <<"hello", Newline, "world">>, start |-> 0, end |-> 10] >>

\* C15 happens: a call has ended that discarded a repeat written differently from
\* the segment it repeats, and kept a segment with the same text that started
\* after a silence.
C15_Witness ==
    /\ tPc = "done"
    /\ \E i \in tDropped : tSegs[i].text # tSegs[i - 1].text
    /\ \E i \in C15_Kept :
          /\ i > 1 /\ Strip(tSegs[i].text) = Strip(tSegs[i - 1].text)
          /\ tSegs[i].start # tSegs[i - 1].end

\* The segments of a transcript that are not exact immediate repeats, in order:
\* segment i is a repeat when its stripped text is the stripped text of the last
\* segment listed before it and it starts where segment i - 1 ends.
RECURSIVE C16_NotRepeated(_, _, _)
C16_NotRepeated(segs, i, lastText) ==
    IF i > Len(segs) THEN <<>>
    ELSE IF i > 1 /\ Strip(segs[i].text) = lastText /\ segs[i].start = segs[i - 1].end
         THEN C16_NotRepeated(segs, i + 1, lastText)
         ELSE <<i>> \o C16_NotRepeated(segs, i + 1, Strip(segs[i].text))

C16_WindowTexts == [i \in DOMAIN tOut |-> tOut[i].text]

\* C16: when a transcript has been read from the start to the end, the texts of
\* the yielded windows, put together, are the stripped texts of the segments that
\* are not discarded repeats, each once and in transcript order.
C16_TextsPreserved ==
    (tPc = "done" /\ tSeek = 0) =>
        LET keep == C16_NotRepeated(tSegs, 1, NoText)
        IN JoinLines(C16_WindowTexts) =
               JoinLines([i \in DOMAIN keep |-> Strip(tSegs[keep[i]].text)])

\* C16 happens: a transcript with a repeat and a text written with a leading
\* blank has been read from the start into two windows or more.
C16_Witness ==
    /\ tPc = "done" /\ tSeek = 0 /\ Len(tOut) >= 2 /\ tDropped # {}
    /\ \E i \in DOMAIN tSegs : i \notin tDropped /\ Strip(tSegs[i].text) # tSegs[i].text

\* C16 as stated: the windows put together are the original segment texts with
\* only the discarded repeats removed.
C16_OriginalTexts ==
    (tPc = "done" /\ tSeek = 0) =>
        LET keep == C16_NotRepeated(tSegs, 1, NoText)
        IN JoinLines(C16_WindowTexts) = JoinLines([i \in DOMAIN keep |-> tSegs[keep[i]].text])

\* C17: a window is yielded as soon as a kept segment brings the accumulated
\* span (the durations of the segments read since the previous window, discarded
\* ones included, plus the silences before the kept ones) to yieldEvery or more,
\* so a buffer that a kept segment has just joined without a yield spans less
\* than yieldEvery; every window other than the final flush has
\* end - start >= yieldEvery; and a buffer that is not empty when the input ends
\* is yielded as the last window.
C17_EmitRule ==
    /\ \A j \in DOMAIN tOut : ~tHist[j].flush => tOut[j].end - tOut[j].start >= tYield
    /\ tLast = "keep" => tSpan < tYield
    /\ tPc = "done" =>
          /\ tKept # <<>> => (tLast = "flush" /\ tHist[Len(tHist)].kept = tKept)
          /\ tLast = "return" => tKept = <<>>

\* C17 happens: a call has ended that yielded one window on reaching yieldEvery,
\* read a discarded repeat, and flushed a last window.
C17_Witness ==
    /\ tPc = "done" /\ tDropped # {}
    /\ \E j \in DOMAIN tHist : ~tHist[j].flush
    /\ \E j \in DOMAIN tHist : tHist[j].flush

\* C17 as stated: a buffer waiting to be yielded never has an accumulated span of
\* yieldEvery or more.
C17_AsSoonAs == (tPc = "loop" /\ tBuffer # <<>>) => tSpan < tYield

\* The windows of a sequence are well formed, in time order and contiguous.
C18_Contiguous(out) ==
    /\ \A j \in DOMAIN out : out[j].end >= out[j].start
    /\ \A j \in DOMAIN out : j < Len(out) => out[j + 1].start = out[j].end

\* C18: of the windows of one call, each has end >= start and each but the first
\* starts where the one before ended. In audio mode they cover seekTo to the
\* total duration. In text mode the first window starts at the start of the
\* first segment that ends at or after seekTo, and the last window ends at the
\* end of the last segment read when it was yielded, every segment after that
\* one being a discarded repeat.
C18_Covers ==
    /\ tPc = "done" =>
          /\ C18_Contiguous(tOut)
          /\ tOut # <<>>
          /\ tOut[1].start = tSegs[StartIdx(tSegs, tSeek)].start
          /\ tOut[Len(tOut)].end = tSegs[tHist[Len(tHist)].read].end
          /\ \A i \in DOMAIN tSegs : i > tHist[Len(tHist)].read => i \in tDropped
    /\ aPc = "done" =>
          /\ C18_Contiguous(aOut)
          /\ aOut # <<>> => (aOut[1].start <= aSeek /\ aOut[Len(aOut)].end >= TimeOf(aLen))
          /\ aOut = <<>> => aSeek >= TimeOf(aLen)

\* C18 happens: a text call has ended with two windows or more and discarded
\* repeats after the last of them.
C18_Witness ==
    /\ tPc = "done" /\ Len(tOut) >= 2
    /\ tHist[Len(tHist)].read < Len(tSegs)

\* C18 as stated: in either mode the windows of a call are contiguous and cover
\* seekTo to the total duration.
C18_CoversAll ==
    /\ tPc = "done" =>
          /\ C18_Contiguous(tOut)
          /\ tOut # <<>>
          /\ tOut[1].start <= tSeek
          /\ tOut[Len(tOut)].end >= SegmentLen(tSegs)
    /\ aPc = "done" =>
          /\ C18_Contiguous(aOut)
          /\ aOut # <<>> => (aOut[1].start <= aSeek /\ aOut[Len(aOut)].end >= TimeOf(aLen))
          /\ aOut = <<>> => aSeek >= TimeOf(aLen)

\* C19: the first window of a call starts at the start of the first segment kept
\* in it, and every later window starts where the window before it ended, at or
\* before the start of the first segment kept in it. A window yielded on reaching
\* yieldEvery ends at the end of the last segment kept in it; the final flush
\* ends at the end of the last segment of the transcript, at or after the end of
\* the last segment kept in it.
C19_Bounds ==
    tPc \in {"loop", "done"} =>
        \A j \in DOMAIN tOut :
            LET kept == tHist[j].kept
                first == tSegs[kept[1]]
                final == tSegs[kept[Len(kept)]]
            IN /\ j = 1 => tOut[j].start = first.start
               /\ j > 1 => (tOut[j].start = tOut[j - 1].end /\ tOut[j].start <= first.start)
               /\ ~tHist[j].flush => tOut[j].end = final.end
               /\ tHist[j].flush =>
                     (tOut[j].end = tSegs[Len(tSegs)].end /\ tOut[j].end >= final.end)

\* C19 happens: a call has ended with a window that starts, where the window
\* before it ended, before the first segment kept in it.
C19_Witness ==
    /\ tPc = "done"
    /\ \E j \in DOMAIN tOut : j > 1 /\ tOut[j].start < tSegs[tHist[j].kept[1]].start

\* C19 as stated: every window starts at the start of the first segment kept in
\* it and ends at the end of the last segment kept in it.
C19_KeptBounds ==
    tPc \in {"loop", "done"} =>
        \A j \in DOMAIN tOut :
            LET kept == tHist[j].kept
            IN /\ tOut[j].start = tSegs[kept[1]].start
               /\ tOut[j].end = tSegs[kept[Len(kept)]].end

\* C20: a call with seekTo greater than the total duration of the input fails
\* with the out-of-range error before it yields any window, in text mode and in
\* audio mode alike.
C20_OutOfRange ==
    /\ (tPc \in {"loop", "done", "error"} /\ tSeek > SegmentLen(tSegs)) =>
          (tPc = "error" /\ tOut = <<>>)
    /\ (aPc \in {"loop", "done"} /\ aSeek > TimeOf(aLen)) => aPc = "error"

\* The text half of C20, which the text segmenter keeps.
C20_TextOutOfRange ==
    (tPc \in {"loop", "done", "error"} /\ tSeek > SegmentLen(tSegs)) =>
        (tPc = "error" /\ tOut = <<>>)

C11_ReadsFile ==
    [][\A p \in Procs, k \in Keys :
          (last'.op = "IsDoneOrRunning" /\ last'.p = p /\ last'.k = k /\ last' # last) =>
              LET rec == IF k \in updated[p] THEN data[p][k] ELSE file[k]
              IN (result'[p] = "true") <=> (rec.state \in {"running", "done"})]_vars

\* C11 happens: the call has answered true from a record that another process
\* wrote to the file after the caller had read it.
C11_Witness ==
    /\ last.op = "IsDoneOrRunning"
    /\ last.stale
    /\ result[last.p] = "true"

C13_Range(q) == { q[i] : i \in DOMAIN q }

\* C13: within one attempt the windows are processed in ascending time order and
\* the watermark is written to the index file after each of them, so the values
\* the attempt writes never decrease; when a value is written, the suggestions
\* of its window and of every window before it in the attempt have been handed
\* to the suggestions file.
C13_WatermarkOrder ==
    [][\A p \in Procs :
          (pc[p] = "body" /\ wpos'[p] = wpos[p] + 1) =>
              LET k == key[p]
                  w == Windows(p)[wpos'[p]]
              IN /\ file'[k].lp = w.end
                 /\ committed'[p] = w.end
                 /\ committed[p] # Absent => (file[k].lp = committed[p] /\ w.end >= committed[p])
                 /\ wpos[p] >= 1 => w.start >= Windows(p)[wpos[p]].end
                 /\ \A i \in 1 .. wpos'[p] :
                       Windows(p)[i].end \in C13_Range(outLog'[k] \o unflushed'[p])]_vars

\* C13 happens: a worker has just written the watermark of the second window of
\* its attempt, the suggestions of both windows being handed to the file but not
\* all of them written out of its buffer.
C13_Witness ==
    /\ last.op = "Window"
    /\ wpos[last.p] = 2
    /\ file[last.k].lp = Windows(last.p)[2].end
    /\ unflushed[last.p] # <<>>

\* C14: while an attempt runs, and so at whatever point it is killed, the
\* suggestions of every window at or before the watermark it has written are in
\* the suggestions file on disk.
C14_Durable ==
    \A p \in Procs :
        pc[p] = "body" =>
            \A i \in 1 .. wpos[p] : Windows(p)[i].end \in C13_Range(outLog[key[p]])

\* C21: in audio mode the windows are consecutive byte slices: the first starts
\* at the frame-aligned (even) byte of seekTo, each later one at the byte where
\* the one before it ended, every window but the last has the fixed size
\* bytes_per_sec * yield_every, and the last one ends at the end of the audio,
\* emitted also when fewer bytes than the fixed size remain.
C21_Windows ==
    aPc = "done" =>
        LET size == aYield \div TimesPerByte
            start == IF aSeek # 0 THEN 2 * ((aSeek \div TimesPerByte) \div 2) ELSE 0
            n == Len(aOut)
        IN /\ (n = 0) <=> (start >= aLen)
           /\ n > 0 =>
                 /\ aOut[1].from = start
                 /\ aOut[n].to = aLen
                 /\ aOut[n].to - aOut[n].from \in 1 .. size
           /\ \A i \in 1 .. n - 1 :
                 /\ aOut[i].to - aOut[i].from = size
                 /\ aOut[i + 1].from = aOut[i].to

\* C21 happens: a call that seeks to an odd byte has ended with three windows or
\* more, the last of them shorter than the fixed size.
C21_Witness ==
    /\ aPc = "done"
    /\ (aSeek \div TimesPerByte) % 2 = 1
    /\ Len(aOut) >= 3
    /\ aOut[Len(aOut)].to - aOut[Len(aOut)].from < aYield \div TimesPerByte

\* C22: the spans of the matches returned by one call of the matcher are
\* pairwise disjoint: no character of the searched text is in two of them.
C22_NonOverlapping ==
    mPc \in {"loop", "done"} =>
        \A i, j \in DOMAIN mOut : i # j => ~Intersect(mOut[i], mOut[j])

\* C22 happens: a call has returned two matches and has removed a candidate
\* whose span shares a character with a returned one.
C22_Witness ==
    /\ mPc = "done"
    /\ Len(mOut) >= 2
    /\ \E c \in Range(Candidates) \ Range(mOut) : \E m \in Range(mOut) : Intersect(m, c)

\* The occurrence s lies inside the longer occurrence l.
Nested(s, l) == l.start <= s.start /\ s.end <= l.end /\ MatchLen(s) < MatchLen(l)

C24_Independent ==
    mPc = "done" =>
        \A c \in Range(Candidates) :
            (\A m \in Range(mOut) : ~Intersect(m, c)) => c \in Range(mOut)

\* C25: once a call has returned, the searched text with every returned span
\* blanked holds no occurrence of any catalog name under the same flags.
C25_Maximal ==
    mPc = "done" => find_potential_gamedata_matches(mWork, mCat, mCase, mNorm) = <<>>

\* Where a name is still found in the blanked text, a candidate that shares no
\* character with a returned match had been removed.
C25_OnlyIndependent == C24_Independent => C25_Maximal

\* C26: suggestions_are_same returns false whenever later.end < earlier.start,
\* or abs(later.end - earlier.end) > tolerance, or the two suggest_types differ;
\* the three tests are made in that order, each only if the ones before it
\* passed, and no other field of the two suggestion dicts is read before all
\* three have passed.
C26_Gates ==
    /\ sRead # {} => (sGates = <<"overlap", "tolerance", "category">> /\ GatesPass)
    /\ sPc = "done" =>
          LET before == sLater.end < sEarlier.start
              far == Abs(sLater.end - sEarlier.end) > sTol
              differ == sEarlier.suggestion.suggest_type # sLater.suggestion.suggest_type
          IN /\ (before \/ far \/ differ) => (sResult = FALSE /\ sRead = {})
             /\ before => sGates = <<"overlap">>
             /\ (~before /\ far) => sGates = <<"overlap", "tolerance">>
             /\ (~before /\ ~far) => sGates = <<"overlap", "tolerance", "category">>

\* C26 happens: two suggestions with equal dicts were found different at the
\* second test, the third not being made.
C26_Witness ==
    /\ sPc = "done"
    /\ sEarlier.suggestion = sLater.suggestion
    /\ sLater.end >= sEarlier.start
    /\ Abs(sLater.end - sEarlier.end) > sTol
    /\ sResult = FALSE
    /\ sGates = <<"overlap", "tolerance">>

\* C27: when the three tests pass, gamedata suggestions are the same iff their
\* entities are equal; improvised_npc suggestions are the same, unless
\* strict_match_improvised_npc is set, and then iff race, background and culture
\* are all equal; suggestions of a type other than gamedata, improvised_npc and
\* foundry are not the same.
C27_Categories ==
    (sPc = "done" /\ GatesPass) =>
        LET a == sEarlier.suggestion
            b == sLater.suggestion
        IN /\ a.suggest_type = "gamedata" => (sResult = (a.entity = b.entity))
           /\ a.suggest_type = "improvised_npc" =>
                 (sResult = (sStrict => (/\ a.race = b.race
                                         /\ a.background = b.background
                                         /\ a.culture = b.culture)))
           /\ a.suggest_type \notin {"gamedata", "improvised_npc", "foundry"} =>
                 sResult = FALSE

\* C27 happens: under the strict flag two improvised NPCs of the same race and
\* background and of different cultures were found different.
C27_Witness ==
    /\ sPc = "done" /\ GatesPass /\ sStrict
    /\ sEarlier.suggestion.suggest_type = "improvised_npc"
    /\ sEarlier.suggestion.race = sLater.suggestion.race
    /\ sEarlier.suggestion.background = sLater.suggestion.background
    /\ sEarlier.suggestion.culture # sLater.suggestion.culture
    /\ sResult = FALSE

C29_Symmetric ==
    (sPc = "done" /\ ~(sLater.end < sEarlier.start) /\ ~(sEarlier.end < sLater.start)) =>
        sResult = suggestions_are_same(sLater, sEarlier, sTol, sNameOnly, sStrict)

\* C29 happens: two suggestions that overlap in time, with different ends and
\* different dicts, were found the same.
C29_Witness ==
    /\ sPc = "done"
    /\ ~(sLater.end < sEarlier.start) /\ ~(sEarlier.end < sLater.start)
    /\ sEarlier.end # sLater.end
    /\ sEarlier.suggestion # sLater.suggestion
    /\ sResult = TRUE

\* C30: in span search a tuple with key (type, name) met in a window ending at e
\* is written if and only if none of these holds: the key was already written in
\* this window; the key is that of the suggestion written last; e minus the end
\* of the window where the key was written last is at most 300. When it is
\* written, last_suggestion becomes the key and suggestion_seen_at[key] becomes
\* e. So no two consecutive suggestions of the log have the same key, and two
\* suggestions of the log with the same key are more than 300 apart.
C30_Debounce ==
    [][(dPc = "tuples" /\ dI' = dI + 1) =>
          LET k == dTuples[dI]
              e == dWins[dW].end
              inWindow == \E i \in DOMAIN dLog : dLog[i].key = k /\ dLog[i].w = dW
              isLast == dLog # <<>> /\ dLog[Len(dLog)].key = k
              recent == e - dSeenAt[k] <= 300
              written == dLog' # dLog
          IN /\ written <=> ~(inWindow \/ isLast \/ recent)
             /\ written =>
                   /\ dLog' = Append(dLog, [key |-> k, w |-> dW, end |-> e])
                   /\ dLast' = k
                   /\ dSeenAt' = [dSeenAt EXCEPT ![k] = e]
             /\ ~written => (dLast' = dLast /\ dSeenAt' = dSeenAt)
             /\ \A i \in 1 .. Len(dLog') - 1 : dLog'[i].key # dLog'[i + 1].key
             /\ \A i, j \in DOMAIN dLog' :
                   (i < j /\ dLog'[i].key = dLog'[j].key) => dLog'[j].end - dLog'[i].end > 300
    ]_spanVars

\* C30 happens: a key was written twice, and a tuple was skipped whose key had
\* been written before, each time more than 300 earlier: it was the key of the
\* suggestion written last.
C30_Witness ==
    /\ dPc = "done"
    /\ \E i, j \in DOMAIN dLog : i < j /\ dLog[i].key = dLog[j].key
    /\ \E h \in DOMAIN dHist :
          /\ ~dHist[h].written
          /\ \E g \in 1 .. h - 1 : dHist[g].written /\ dHist[g].key = dHist[h].key
          /\ \A g \in 1 .. h - 1 :
                (dHist[g].written /\ dHist[g].key = dHist[h].key) =>
                    dHist[h].end - dHist[g].end > 300

\* The decisions of the loop on the tuples of key k, in order.
DecisionsOn(k) == SelectSeq(dHist, LAMBDA h : h.key = k)

\* The key written last before decision number n of dHist, or NoSuggestionKey.
RECURSIVE WrittenBefore(_)
WrittenBefore(n) ==
    IF n <= 1 THEN NoSuggestionKey
    ELSE IF dHist[n - 1].written THEN dHist[n - 1].key
    ELSE WrittenBefore(n - 1)

\* C31: when one subject is matched in windows ending at 10, 20 and 320, its
\* first suggestion is written and its second is skipped; its third, 310 after
\* the first, is written if a suggestion of another key was written since the
\* first, and is skipped as a repeat of the suggestion written last otherwise.
C31_ThirdAfterOther ==
    (dPc = "done" /\ dWins \in DebounceRuns) =>
        LET k == <<"Monster", "goblin">>
            d == DecisionsOn(k)
            third == CHOOSE n \in DOMAIN dHist : dHist[n].key = k /\ dHist[n].w = 3
        IN /\ Len(d) = 3
           /\ d[1].written /\ d[1].end = 10
           /\ ~d[2].written /\ d[2].end = 20
           /\ d[3].end = 320
           /\ d[3].written <=> (WrittenBefore(third) # k)

\* C31 happens: the goblin, matched at 10, 20 and 320, was written at 10 and at
\* 320, an orc being written between the two.
C31_Witness ==
    /\ dPc = "done" /\ dWins \in DebounceRuns
    /\ \E i, j, l \in DOMAIN dLog :
          /\ i < j /\ j < l
          /\ dLog[i].key = <<"Monster", "goblin">> /\ dLog[i].end = 10
          /\ dLog[j].key = <<"Monster", "orc">>
          /\ dLog[l].key = <<"Monster", "goblin">> /\ dLog[l].end = 320

\* C31 as stated: the first is written, the second skipped, the third written.
C31_ThirdEmitted ==
    (dPc = "done" /\ dWins \in DebounceRuns) =>
        LET d == DecisionsOn(<<"Monster", "goblin">>)
        IN Len(d) = 3 /\ d[1].written /\ ~d[2].written /\ d[3].written

\* The end of the window where key k was written last, or NeverSeen.
RECURSIVE LastWrittenEnd(_, _)
LastWrittenEnd(k, n) ==
    IF n = 0 THEN NeverSeen
    ELSE IF dLog[n].key = k THEN dLog[n].end
    ELSE LastWrittenEnd(k, n - 1)

\* C35: a tuple skipped by one of the three tests leaves suggestion_seen_at and
\* last_suggestion as they were; so suggestion_seen_at holds, for every key, the
\* end of the window where it was written last, whatever was skipped since.
C35_SkipFrame ==
    [][/\ (dPc = "tuples" /\ dI' = dI + 1 /\ dLog' = dLog) =>
             (dSeenAt' = dSeenAt /\ dLast' = dLast)
       /\ dPc' \in {"window", "tuples", "done"} =>
             /\ \A k \in SpanKeys : dSeenAt'[k] = LastWrittenEnd(k, Len(dLog))'
             /\ dLast' = (IF dLog' = <<>> THEN NoSuggestionKey ELSE dLog'[Len(dLog')].key)
    ]_spanVars

\* C35 happens: a key was written, skipped 300 later, and written again within
\* 300 of the skipped tuple.
C35_Witness ==
    \E g, h, l \in DOMAIN dHist :
        /\ g < h /\ h < l
        /\ dHist[g].key = dHist[h].key /\ dHist[h].key = dHist[l].key
        /\ dHist[g].written /\ ~dHist[h].written /\ dHist[l].written
        /\ dHist[h].end - dHist[g].end = 300
        /\ dHist[l].end - dHist[h].end <= 300

\* The suggestions of the log for the NPC n.
LogOfNpc(n) == SelectSeq(dLog, LAMBDA s : s.key[2] = n /\ s.key[1] \in {"stage_npc", "unstage_npc"})

\* C36: the suggestions written for one NPC alternate between stage and
\* unstage, starting with stage.
C36_Alternates ==
    dPc \in {"window", "tuples", "done"} =>
        LET a == LogOfNpc("Akita")
        IN \A i \in DOMAIN a :
              a[i].key[1] = (IF i % 2 = 1 THEN "stage_npc" ELSE "unstage_npc")

\* ---------------------------------------------------------------- C32, C37
\* The last post_annotation call, the suggestion it annotated and what it wrote.
LastCall == nCalls[1]
LastSrc == SuggestionOf(nSugs, LastCall.req.suggestion_id)
LastWritten == SubSeq(nFile, LastCall.at + 1, Len(nFile))
LastCopies == SubSeq(nFile, LastCall.at + 2, Len(nFile))

\* The tolerance the claim selects for the last call.
LastTolerance ==
    IF LastCall.req.apply_to_rest \/ LastCall.req.apply_to_all_of_npc
    THEN LastCall.req.bulk_apply_duration
    ELSE IF LastCall.req.score > 0 /\ LastSrc.suggestion.suggest_type = "gamedata" THEN 300 ELSE 30

\* The suggestions, out of the ids given, that end no earlier than the source
\* and are the same suggestion at the selected tolerance.
SameAmong(ids) ==
    { nSugs[i].suggestion_id : i \in
        { j \in DOMAIN nSugs :
            /\ nSugs[j].suggestion_id \in ids \ {LastSrc.suggestion_id}
            /\ nSugs[j].end >= LastSrc.end
            /\ suggestions_are_same(LastSrc, nSugs[j], LastTolerance,
                                    LastCall.req.apply_to_all_of_npc, LastCall.req.apply_to_rest) } }

\* The suggestions the caller had no record for when the last call began.
NotYetAnnotated ==
    { nSugs[i].suggestion_id : i \in
        { j \in DOMAIN nSugs :
            \A k \in 1..LastCall.at :
                ~(nFile[k].who = LastCall.req.username
                  /\ nFile[k].suggestion_id = nSugs[j].suggestion_id) } }

\* The call wrote the manual record of the source and then one copy for each of the ids.
WroteCopiesFor(ids) ==
    /\ LastWritten[1] = LabelledSuggestion(LastSrc.suggestion_id, LastCall.req.username,
                                           LastCall.req.score, LastCall.req.labels,
                                           LastCall.req.comment, Manual)
    /\ { LastCopies[i].suggestion_id : i \in DOMAIN LastCopies } = ids
    /\ Len(LastCopies) = Cardinality(ids)
    /\ \A i \in DOMAIN LastCopies :
          /\ LastCopies[i].who = LastCall.req.username
          /\ LastCopies[i].score = LastCall.req.score
          /\ LastCopies[i].labels = LastCall.req.labels
          /\ LastCopies[i].comment = LastCall.req.comment
          /\ LastCopies[i].why = CopiedFrom(LastSrc.suggestion_id, LastTolerance)
          /\ LastCopies[i].why # Manual

\* C32 (as amended): after a suggestion src is annotated, a copy with the same
\* score, labels and comment, whose provenance names src and the tolerance and
\* differs from the manual label, is written for exactly those suggestions that
\* were still to do for the annotator (not yet annotated by them, and of a model
\* that is not left out of annotation), end no earlier than src and are the same
\* suggestion as src at the selected tolerance.
C32_CopiesToDo == nCalls # <<>> => WroteCopiesFor(SameAmong(LastCall.todo))

\* C32 as stated: the copies go to exactly the not-yet-annotated suggestions of
\* the run that end no earlier than src and are the same suggestion.
C32_CopiesNotYetAnnotated == nCalls # <<>> => WroteCopiesFor(SameAmong(NotYetAnnotated))

\* A positive gamedata annotation without bulk flags was copied at tolerance 300
\* to a later suggestion, while a same suggestion that ends earlier and was still
\* to do got no copy.
C32_Witness ==
    /\ nCalls # <<>>
    /\ ~LastCall.req.apply_to_rest /\ ~LastCall.req.apply_to_all_of_npc
    /\ LastTolerance = 300
    /\ \E i \in DOMAIN LastCopies :
          SuggestionOf(nSugs, LastCopies[i].suggestion_id).end - LastSrc.end > 30
    /\ \E j \in DOMAIN nSugs :
          /\ nSugs[j].suggestion_id \in LastCall.todo
          /\ nSugs[j].end < LastSrc.end
          /\ suggestions_are_same(nSugs[j], LastSrc, LastTolerance, FALSE, FALSE)
          /\ \A i \in DOMAIN LastCopies : LastCopies[i].suggestion_id # nSugs[j].suggestion_id

\* The records of the caller for one suggestion.
RecordsFor(id) == { k \in DOMAIN nFile : nFile[k].who = Caller /\ nFile[k].suggestion_id = id }

\* C37: after any sequence of post_annotation calls by one annotator, each for a
\* suggestion that was still to do for them, every suggestion has at most one
\* annotation record from that annotator, and no copied record of theirs is for
\* the suggestion it was copied from.
C37_OneRecordEach ==
    /\ \A i \in DOMAIN nSugs : Cardinality(RecordsFor(nSugs[i].suggestion_id)) <= 1
    /\ \A k \in DOMAIN nFile :
          nFile[k].who = Caller /\ nFile[k].why # Manual => nFile[k].why[2] # nFile[k].suggestion_id
    /\ nCalls # <<>> =>
          \A k \in RecordsFor(LastSrc.suggestion_id) : nFile[k].why = Manual

\* The caller has annotated everything that was to do in a run the other
\* annotator had records for, some of it by hand and some of it by copies.
C37_Witness ==
    /\ nCalls # <<>>
    /\ SuggestionsToDo(nSugs, nFile, Caller) = <<>>
    /\ \E k \in DOMAIN nFile : nFile[k].who # Caller
    /\ \E k \in DOMAIN nFile : nFile[k].who = Caller /\ nFile[k].why # Manual
    /\ Cardinality({ k \in DOMAIN nFile : nFile[k].who = Caller /\ nFile[k].why = Manual }) >= 2

\* ---------------------------------------------------------------- C38, C39
\* C38: reconnect makes at most retry_attempts connection attempts and waits 2^i
\* seconds after the i-th failure (counted from 0); when every attempt has failed,
\* the failure is raised to the caller, the old session is not closed and no
\* successful reconnection is reported.
C38_AllFailedRaises ==
    /\ rFailed <= Max(rAttempts, 1)
    /\ \A i \in DOMAIN rSlept : rSlept[i] = Pow2(i - 1)
    /\ ~(rPc \in {"close", "returned"} /\ ~rConnected)
    /\ rPc = "raised" => ~rOldClosed /\ ~rReported

\* C39: the chat context is reset exactly when max_consecutive_duplicates + 1
\* assistant messages in a row, all of them after the previous reset, have the
\* same content, and never after fewer; after a reset the count is zero.
C39_ResetAfterRun ==
    gOn =>
        /\ \A k \in 1..Len(gHistory) :
              k \in gResets <=>
                  /\ k - gMax >= 1
                  /\ \A j \in (k - gMax)..k : gHistory[j] = gHistory[k]
                  /\ \A r \in gResets : ~(k - gMax <= r /\ r < k)
        /\ Len(gHistory) \in gResets => gSeen = 0

\* ---------------------------------------------------------------- C33
\* C33: while a process is inside the running scope of a key, the index file
\* shows the key as running, so is_done_or_running(key), which syncs with the
\* file and reads the state, returns true for every other process, also before
\* the first window has been processed.
C33_RunningVisible == \A p \in Procs : pc[p] = "body" => IsDoneOrRunning(file, key[p])

\* ---------------------------------------------------------------- C34
\* The loop of text_chunks_from_transcript_file with the indices of the segments
\* it puts into each window: per window, the indices kept and the end.
RECURSIVE KeptLoop(_, _, _, _)
KeptLoop(segs, yieldEvery, idx, st) ==
    IF idx > Len(segs)
    THEN IF st.kept # <<>> THEN Append(st.out, [kept |-> st.kept, end |-> st.lastEnd])
         ELSE st.out
    ELSE LET segment == segs[idx]
             text == Strip(segment.text)
             span1 == st.span + (segment.end - segment.start)
         IN IF text = st.lastText /\ segment.start = st.lastEnd
            THEN KeptLoop(segs, yieldEvery, idx + 1,
                          [st EXCEPT !.span = span1, !.lastEnd = segment.end])
            ELSE LET span2 == span1 + (segment.start - st.lastEnd)
                 IN IF span2 >= yieldEvery
                    THEN KeptLoop(segs, yieldEvery, idx + 1,
                                  [kept |-> <<>>, span |-> 0, lastEnd |-> segment.end,
                                   lastText |-> text,
                                   out |-> Append(st.out, [kept |-> Append(st.kept, idx),
                                                           end |-> segment.end])])
                    ELSE KeptLoop(segs, yieldEvery, idx + 1,
                                  [st EXCEPT !.kept = Append(st.kept, idx), !.span = span2,
                                             !.lastEnd = segment.end, !.lastText = text])

\* The windows of one call, as the indices of their segments.
KeptWindows(segs, yieldEvery, seekTo) ==
    LET startIdx == StartIdx(segs, seekTo)
    IN KeptLoop(segs, yieldEvery, startIdx,
                [kept |-> <<>>, span |-> 0, lastEnd |-> segs[startIdx].start,
                 lastText |-> NoText, out |-> <<>>])

\* The generator run statement by statement puts into its windows the segments
\* KeptWindows computes.
KeptAgrees ==
    tPc = "done" =>
        LET w == KeptWindows(tSegs, tYield, tSeek)
        IN /\ Len(w) = Len(tHist)
           /\ \A i \in DOMAIN w : w[i].kept = tHist[i].kept /\ w[i].end = tOut[i].end

\* The run from the beginning of the transcript, the watermarks it commits, and
\* the segments in its windows that end at or before a watermark.
FirstRun == KeptWindows(tSegs, tYield, 0)
FirstWatermarks == { FirstRun[i].end : i \in DOMAIN FirstRun }
CommittedUpTo(w) ==
    UNION { { FirstRun[i].kept[j] : j \in DOMAIN FirstRun[i].kept } :
              i \in { n \in DOMAIN FirstRun : FirstRun[n].end <= w } }

\* The segments in the windows of the call.
PlacedNow == UNION { { tHist[i].kept[j] : j \in DOMAIN tHist[i].kept } : i \in DOMAIN tHist }

\* C34: a text-mode run resumed at a watermark w that the run from the beginning
\* committed puts into its windows no segment that was in a window whose end was
\* recorded as a watermark <= w.
C34_NoSegmentTwice ==
    (tPc = "done" /\ tSeek > 0 /\ tSeek \in FirstWatermarks)
        => PlacedNow \cap CommittedUpTo(tSeek) = {}
====
